---- MODULE Spec2Model ----
(***************************************************************************)
(* Model of the Gemini thinking server (src/index.ts, src/gemini-index.ts):*)
(* the thought store (thoughtHistory, branches), session persistence       *)
(* (saveSession / loadSession) and the turn controller (processThought).   *)
(*                                                                         *)
(* JavaScript values are tagged records [ty, val]; a JavaScript string is  *)
(* the sequence of its tokens (so "" is <<>> and concatenation is \o); a   *)
(* number is held in hundredths (Whole(1) is 1, Num(82) is 0.82); an object  *)
(* is a TLA+ function from its own keys to values.                         *)
(***************************************************************************)
EXTENDS Integers, Sequences, FiniteSets, TLC

VARIABLES
  thoughtHistory,  \* GeminiThinkingServer.thoughtHistory
  branches,        \* GeminiThinkingServer.branches (own keys only)
  files,           \* the file system: path -> content
  pending,         \* turns suspended at `await generateContent`, in arrival order
  last             \* the request handled by the latest step and what it returned

vars == <<thoughtHistory, branches, files, pending, last>>

----------------------------------------------------------------------------
(* Bounds of the model *)

MaxHistory == 2
MaxPending == 1

----------------------------------------------------------------------------
(* JavaScript values *)

Undefined == [ty |-> "undefined", val |-> 0]
Null == [ty |-> "null", val |-> 0]
Num(h) == [ty |-> "number", val |-> h]
Whole(k) == Num(k * 100)
Bool(b) == [ty |-> "boolean", val |-> b]
Str(toks) == [ty |-> "string", val |-> toks]
Arr(elems) == [ty |-> "array", val |-> elems]

\* A tagged value, as opposed to an object (a function from keys to values).
IsTagged(x) == "ty" \in DOMAIN x

\* ToBoolean
Truthy(v) ==
  CASE v.ty = "undefined" -> FALSE
    [] v.ty = "null" -> FALSE
    [] v.ty = "boolean" -> v.val
    [] v.ty = "number" -> v.val # 0
    [] v.ty = "string" -> Len(v.val) > 0
    [] OTHER -> TRUE

\* Property read o[f]: undefined when f is not a key of o.
Get(o, f) == IF f \in DOMAIN o THEN o[f] ELSE Undefined

\* o with key f set to v.
With(o, f, v) == [g \in DOMAIN o \cup {f} |-> IF g = f THEN v ELSE o[g]]

Whitespace == {" ", "\n"}

RECURSIVE TrimStart(_)
TrimStart(toks) ==
  IF toks # <<>> /\ Head(toks) \in Whitespace THEN TrimStart(Tail(toks)) ELSE toks

RECURSIVE TrimEnd(_)
TrimEnd(toks) ==
  IF toks # <<>> /\ toks[Len(toks)] \in Whitespace
  THEN TrimEnd(SubSeq(toks, 1, Len(toks) - 1))
  ELSE toks

\* String.prototype.trim
Trim(toks) == TrimEnd(TrimStart(toks))

Last(s) == s[Len(s)]

----------------------------------------------------------------------------
(* ThoughtData *)

ThoughtFields ==
  {"query", "context", "approach", "thought", "thoughtNumber", "totalThoughts",
   "previousThoughts", "nextThoughtNeeded", "isRevision", "revisesThought",
   "branchFromThought", "branchId", "needsMoreThoughts", "metaComments",
   "confidenceLevel", "alternativePaths"}

\* validateThoughtData: the message of the Error it throws, "" when it throws none.
ValidationError(data) ==
  CASE ~Truthy(Get(data, "query")) \/ Get(data, "query").ty # "string" ->
         "Invalid query: must be a string"
    [] ~Truthy(Get(data, "thoughtNumber")) \/ Get(data, "thoughtNumber").ty # "number" ->
         "Invalid thoughtNumber: must be a number"
    [] ~Truthy(Get(data, "totalThoughts")) \/ Get(data, "totalThoughts").ty # "number" ->
         "Invalid totalThoughts: must be a number"
    [] Get(data, "nextThoughtNeeded").ty # "boolean" ->
         "Invalid nextThoughtNeeded: must be a boolean"
    [] OTHER -> ""

\* validateThoughtData: the ThoughtData it returns (all sixteen keys, absent
\* optional ones undefined, `thought` defaulted to "").
validateThoughtData(data) ==
  [f \in ThoughtFields |->
     IF f = "thought"
     THEN (IF Truthy(Get(data, "thought")) THEN Get(data, "thought") ELSE Str(<<>>))
     ELSE Get(data, f)]

\* AdjustTotal without the raise.
AdjustTotalNever(v) == v

\* processThought: totalThoughts is raised to thoughtNumber.
AdjustTotal(v) ==
  IF v.thoughtNumber.val > v.totalThoughts.val
  THEN [v EXCEPT !.totalThoughts = v.thoughtNumber]
  ELSE v

----------------------------------------------------------------------------
(* generateThoughtWithGemini *)

MetaMarkers == {"META:", "meta:"}
ConfidenceMarkers == {"CONFIDENCE:", "confidence:"}
AlternativesMarkers == {"ALTERNATIVES:", "alternatives:"}

\* parseFloat of a token matched by \d+(?:\.\d+)?
ParseFloat(tok) ==
  CASE tok = "82" -> Whole(82)
    [] tok = "150" -> Whole(150)
    [] tok = "5" -> Whole(5)
    [] OTHER -> Whole(0)

DigitTokens == {"82", "150", "5"}

\* Index of the first token of toks at or after position i that is in S; 0 if none.
FirstIn(toks, S, i) ==
  IF \E j \in i..Len(toks) : toks[j] \in S
  THEN CHOOSE j \in i..Len(toks) :
         toks[j] \in S /\ \A k \in i..(j - 1) : toks[k] \notin S
  ELSE 0

\* Where `.*?(?:\n|$)` started after position i stops: the next newline, or one
\* past the end of the text.
LineEnd(toks, i) ==
  IF FirstIn(toks, {"\n"}, i + 1) = 0 THEN Len(toks) + 1 ELSE FirstIn(toks, {"\n"}, i + 1)

\* The group (.*?) of /MARKER:(.*?)(?:\n|$)/i for the marker at position i.
Capture(toks, i) == SubSeq(toks, i + 1, LineEnd(toks, i) - 1)

\* text.replace(/MARKER:.*?(?:\n|$)/i, ''): the first match only, newline included.
RemoveFirst(toks, S) ==
  IF FirstIn(toks, S, 1) = 0
  THEN toks
  ELSE SubSeq(toks, 1, FirstIn(toks, S, 1) - 1)
         \o SubSeq(toks, LineEnd(toks, FirstIn(toks, S, 1)) + 1, Len(toks))

\* Position of the first match of /CONFIDENCE:(\d+(?:\.\d+)?)%?/i: a marker
\* directly followed by digits; 0 if none.
ConfidenceMatch(toks) ==
  IF \E j \in 1..(Len(toks) - 1) : toks[j] \in ConfidenceMarkers /\ toks[j + 1] \in DigitTokens
  THEN CHOOSE j \in 1..(Len(toks) - 1) :
         /\ toks[j] \in ConfidenceMarkers /\ toks[j + 1] \in DigitTokens
         /\ \A k \in 1..(j - 1) : ~(toks[k] \in ConfidenceMarkers /\ toks[k + 1] \in DigitTokens)
  ELSE 0

\* String.prototype.split('|') followed by map(trim)
RECURSIVE SplitBar(_)
SplitBar(toks) ==
  IF FirstIn(toks, {"|"}, 1) = 0
  THEN <<Str(Trim(toks))>>
  ELSE <<Str(Trim(SubSeq(toks, 1, FirstIn(toks, {"|"}, 1) - 1)))>>
         \o SplitBar(SubSeq(toks, FirstIn(toks, {"|"}, 1) + 1, Len(toks)))

ExtractMetaComments(text) ==
  IF FirstIn(text, MetaMarkers, 1) = 0
  THEN Str(<<>>)
  ELSE Str(Trim(Capture(text, FirstIn(text, MetaMarkers, 1))))

ExtractConfidence(text) ==
  IF ConfidenceMatch(text) = 0
  THEN Whole(0)
  ELSE Num(ParseFloat(text[ConfidenceMatch(text) + 1]).val \div 100)

ExtractAlternatives(text) ==
  IF FirstIn(text, AlternativesMarkers, 1) = 0
  THEN Arr(<<>>)
  ELSE Arr(SplitBar(Capture(text, FirstIn(text, AlternativesMarkers, 1))))

CleanText(text) ==
  Trim(RemoveFirst(RemoveFirst(RemoveFirst(text, MetaMarkers), ConfidenceMarkers),
                   AlternativesMarkers))

\* The try block, when generateContent resolves with `text`.
GeneratedThought(input, text) ==
  [input EXCEPT !.thought = Str(CleanText(text)),
                !.metaComments = ExtractMetaComments(text),
                !.confidenceLevel = ExtractConfidence(text),
                !.alternativePaths = ExtractAlternatives(text)]

\* The catch block: the error is absorbed into the thought body.
ErrorThought(input, message) ==
  [input EXCEPT !.thought = Str(<<"Error generating thought: ", message>>)]

\* Building the prompt throws before the collaborator is called:
\* input.previousThoughts.join is not a function.
PromptThrows(input) ==
  input.previousThoughts.ty = "string" /\ Len(input.previousThoughts.val) > 0

----------------------------------------------------------------------------
(* formatThought *)

\* formatThought throws a TypeError: destructuring null, or
\* alternativePaths.join on a non-empty string.
FormatThrows(t) ==
  \/ IsTagged(t)
  \/ /\ Get(t, "alternativePaths").ty = "string"
     /\ Len(Get(t, "alternativePaths").val) > 0

----------------------------------------------------------------------------
(* The thought store: thoughtHistory.push and the branch mirror *)

\* Properties every object inherits from Object.prototype: this.branches[k] is
\* truthy for such a k although k is no own key, and has no push method.
ObjectPrototypeKeys == {<<"constructor">>}

\* if (validatedInput.branchFromThought && validatedInput.branchId)
Mirrors(v) == Truthy(v.branchFromThought) /\ Truthy(v.branchId)

\* this.branches[validatedInput.branchId].push throws a TypeError.
PushThrows(b, v) ==
  /\ Mirrors(v)
  /\ v.branchId.val \notin DOMAIN b
  /\ v.branchId.val \in ObjectPrototypeKeys

\* branches after the mirror step of processThought.
BranchesAfter(b, v) ==
  IF Mirrors(v) /\ ~PushThrows(b, v)
  THEN With(b, v.branchId.val,
            Append(IF v.branchId.val \in DOMAIN b THEN b[v.branchId.val] ELSE <<>>, v))
  ELSE b

EmptyObject == [k \in {} |-> <<>>]

----------------------------------------------------------------------------
(* Response envelopes *)

\* The envelope of the catch block of processThought.
Failed(message) ==
  [kind |-> "failed", isError |-> TRUE, status |-> "failed", error |-> message]

\* The envelope of a stored thought.
ThoughtResponse(v, h, b) ==
  [kind |-> "thought", isError |-> FALSE,
   thought |-> v.thought, thoughtNumber |-> v.thoughtNumber,
   totalThoughts |-> v.totalThoughts, nextThoughtNeeded |-> v.nextThoughtNeeded,
   branches |-> DOMAIN b, thoughtHistoryLength |-> Len(h),
   metaComments |-> v.metaComments, confidenceLevel |-> v.confidenceLevel,
   alternativePaths |-> v.alternativePaths]

SaveResponse(success) ==
  [kind |-> "save", isError |-> FALSE, command |-> "save",
   status |-> IF success THEN "success" ELSE "error",
   message |-> IF success THEN "Session saved to" ELSE "Failed to save session"]

LoadResponse(success, h, b) ==
  [kind |-> "load", isError |-> FALSE, command |-> "load",
   status |-> IF success THEN "success" ELSE "error",
   message |-> IF success THEN "Session loaded from" ELSE "Failed to load session",
   thoughtHistoryLength |-> Len(h), branches |-> DOMAIN b]

\* StateResponse reporting the first thought instead of the last.
StateResponseFirst(h, b) ==
  [kind |-> "getState", isError |-> FALSE, command |-> "getState", status |-> "success",
   thoughtHistoryLength |-> Len(h), branches |-> DOMAIN b,
   lastThought |-> IF Len(h) > 0 THEN h[1] ELSE Null]

\* The envelope of the getState branch.
StateResponse(h, b) ==
  [kind |-> "getState", isError |-> FALSE, command |-> "getState", status |-> "success",
   thoughtHistoryLength |-> Len(h), branches |-> DOMAIN b,
   lastThought |-> IF Len(h) > 0 THEN h[Len(h)] ELSE Null]

UnknownResponse(command) ==
  [kind |-> "unknown", isError |-> TRUE, status |-> "error",
   message |-> "Unknown session command", command |-> command]

\* TurnOutput reporting the store as it was before the push and the mirror.
TurnOutputStale(v, h, b) ==
  IF PushThrows(b, v)
  THEN Failed("this.branches[validatedInput.branchId].push is not a function")
  ELSE IF FormatThrows(v)
  THEN Failed("alternativePaths.join is not a function")
  ELSE ThoughtResponse(v, h, b)

\* What the tail of processThought returns for the thought v it has just pushed.
TurnOutput(v, h, b) ==
  IF PushThrows(b, v)
  THEN Failed("this.branches[validatedInput.branchId].push is not a function")
  ELSE IF FormatThrows(v)
  THEN Failed("alternativePaths.join is not a function")
  ELSE ThoughtResponse(v, Append(h, v), BranchesAfter(b, v))

----------------------------------------------------------------------------
(* Session persistence *)

Timestamps == {"2025-01-01T00:00:00.000Z", "2025-01-02T00:00:00.000Z"}

Absent == [kind |-> "absent"]
Garbage == [kind |-> "garbage"]
Json(data) == [kind |-> "json", data |-> data]
Obj(map) == [ty |-> "object", val |-> map]

\* JsonThought dropping every falsy value, not only undefined.
JsonThoughtDropsFalsy(t) ==
  IF IsTagged(t) THEN t ELSE [f \in {g \in DOMAIN t : Truthy(t[g])} |-> t[f]]

\* JSON.stringify followed by JSON.parse of one history element: keys whose value
\* is undefined are dropped, null stays null.
JsonThought(t) ==
  IF IsTagged(t) THEN t ELSE [f \in {g \in DOMAIN t : t[g].ty # "undefined"} |-> t[f]]

JsonThoughts(list) == [i \in 1..Len(list) |-> JsonThought(list[i])]

\* The sessionData object of saveSession, as written by JSON.stringify.
SessionData(h, b, ts) ==
  [thoughtHistory |-> Arr(JsonThoughts(h)),
   branches |-> Obj([k \in DOMAIN b |-> JsonThoughts(b[k])]),
   timestamp |-> Str(<<ts>>),
   version |-> Str(<<"0.1.0">>)]

\* loadSession: the file is there, parses, and passes the thoughtHistory check.
LoadAccepts(content) ==
  /\ content.kind = "json"
  /\ ~IsTagged(content.data)
  /\ Truthy(Get(content.data, "thoughtHistory"))
  /\ Get(content.data, "thoughtHistory").ty = "array"

LoadedHistory(content) == Get(content.data, "thoughtHistory").val

\* sessionData.branches || {}
LoadedBranches(content) ==
  IF Truthy(Get(content.data, "branches")) THEN Get(content.data, "branches").val ELSE EmptyObject

\* The forEach that displays the loaded thoughts throws.
DisplayThrows(h) == \E i \in 1..Len(h) : FormatThrows(h[i])

----------------------------------------------------------------------------
(* Requests, generator outcomes and files the environment can supply *)

Without(o, f) == [g \in DOMAIN o \ {f} |-> o[g]]

Base ==
  [query |-> Str(<<"q">>), thought |-> Str(<<"t">>), thoughtNumber |-> Whole(1),
   totalThoughts |-> Whole(1), nextThoughtNeeded |-> Bool(TRUE)]

\* The fields clients add to a session command to satisfy the tool schema.
Dummy ==
  [query |-> Str(<<"dummy">>), thoughtNumber |-> Whole(1),
   totalThoughts |-> Whole(1), nextThoughtNeeded |-> Bool(FALSE)]

Rejected ==
  {With(Base, "thoughtNumber", Whole(0)), With(Base, "thoughtNumber", Str(<<"1">>)),
   With(Base, "totalThoughts", Whole(0)), With(Base, "query", Str(<<>>)),
   Without(Base, "nextThoughtNeeded"), With(Base, "thought", Whole(5)), Null}

\* No body and a string where the list of previous bodies belongs.
BadPrevious == With(Dummy, "previousThoughts", Str(<<"p">>))

Branching(r, id) == With(With(r, "branchFromThought", Whole(1)), "branchId", Str(<<id>>))

Command(c) == With(Dummy, "sessionCommand", Str(<<c>>))
CommandOn(c, path) == With(Command(c), "sessionPath", Str(<<path>>))

\* Turn requests: numbers in and out of range, with and without a body.
TurnRequests ==
  Rejected
    \cup {Base, Dummy, With(Base, "thoughtNumber", Whole(2)),
          With(Base, "thoughtNumber", Whole(-1)), With(Base, "totalThoughts", Whole(2)),
          Without(With(Base, "thoughtNumber", Whole(2)), "thought"), BadPrevious}

Planned(n, total) ==
  With(With(Base, "thoughtNumber", Whole(n)), "totalThoughts", Whole(total))

Revision(r, k) == With(With(r, "isRevision", Bool(TRUE)), "revisesThought", Whole(k))

\* Turns that revise an earlier thought or change the planned total.
RevisionRequests ==
  {Planned(1, 5), Planned(2, 2), Planned(2, 1), Revision(Planned(2, 2), 1),
   Revision(Without(Planned(3, 3), "thought"), 2), Revision(Base, 1),
   Revision(With(Base, "thoughtNumber", Whole(0)), 1),
   Revision(With(Base, "thought", Whole(5)), 1), Revision(BadPrevious, 1), Null}

\* Branching requests, with and without a body.
BranchRequests ==
  {Branching(Base, "b1"), Branching(Base, "b2"), Branching(Base, "constructor"),
   Branching(Without(Base, "thought"), "b1"),
   Branching(Without(Base, "thought"), "constructor"),
   With(Base, "branchFromThought", Whole(1)), With(Base, "branchId", Str(<<"b1">>)),
   With(Base, "thought", Whole(5)), With(Base, "query", Str(<<>>)), BadPrevious, Null}

\* Session commands, and a few turns to build a store from.
SessionRequests ==
  {CommandOn("save", "s.json"), CommandOn("load", "s.json"), Command("getState"),
   Command("reset"), Branching(Base, "b1"), Dummy,
   With(Base, "thought", Whole(5)), With(Base, "query", Str(<<>>)), BadPrevious, Null,
   Str(<<"no object">>)}

\* Session commands with and without a usable path.
PathRequests ==
  {Command("save"), Command("load"), With(Command("save"), "sessionPath", Whole(5)),
   With(Command("load"), "sessionPath", Str(<<>>)), CommandOn("save", "s.json"),
   CommandOn("load", "s.json"), Command("getState"), Command("reset")}

\* What the session-manager client sends, and a few turns.
GeminiRequests ==
  {CommandOn("save", "s.json"), CommandOn("load", "s.json"), Command("getState"),
   [sessionCommand |-> Str(<<"getState">>)],
   Base, With(Base, "thought", Whole(5)), BadPrevious, Null}

GeneratedTexts ==
  {<<"Some analysis.", "\n", "CONFIDENCE:", "82", "%", "\n", "META:", " ", "sure", "\n",
     "More text.">>}

\* Replies that hold nothing but whitespace or a marker line.
BlankTexts ==
  {<<>>, <<" ", "\n">>, <<"META:", " ", "sure">>}

\* Replies with marker lines: a space between the colon and the number,
\* two lines of the same marker, and a percentage above a hundred.
MarkerTexts ==
  {<<"Some analysis.", "\n", "CONFIDENCE:", " ", "82", "%", "\n", "More text.">>,
   <<"A", "\n", "META:", " ", "one", "\n", "META:", " ", "two", "\n", "B">>,
   <<"A", "\n", "CONFIDENCE:", "150", "%">>}

GeneratorErrors == {"quota exceeded"}

\* Turns with and without a body, for the generator to answer.
GenerationRequests ==
  {Dummy, Base, With(Base, "thought", Str(<<" ">>)), BadPrevious,
   With(Base, "thought", Whole(5)), With(Base, "query", Str(<<>>)), Null,
   With(Base, "confidenceLevel", Whole(5))}

ValidStored ==
  [query |-> Str(<<"q">>), thought |-> Str(<<"t">>), thoughtNumber |-> Whole(1),
   totalThoughts |-> Whole(3), nextThoughtNeeded |-> Bool(TRUE)]

Paths == {<<"s.json">>}

\* What a session file written by something other than this server can hold.
ExternalFiles ==
  {Absent,
   Json([version |-> Str(<<"0.1.0">>)]),
   Json([thoughtHistory |-> Str(<<"x">>)]),
   Json([thoughtHistory |-> Arr(<<Null>>)]),
   Json([thoughtHistory |-> Arr(<<[query |-> Str(<<"q">>)]>>)]),
   Json([thoughtHistory |-> Arr(<<ValidStored>>), note |-> Str(<<"v2">>)])}

----------------------------------------------------------------------------
(* processThought *)

\* if (data.sessionCommand && typeof data.sessionCommand === 'string')
IsSessionCommand(data) ==
  Truthy(Get(data, "sessionCommand")) /\ Get(data, "sessionCommand").ty = "string"

\* command === c && data.sessionPath && typeof data.sessionPath === 'string'
HasPath(data) ==
  Truthy(Get(data, "sessionPath")) /\ Get(data, "sessionPath").ty = "string"

IsCommand(data, c) == Get(data, "sessionCommand").val = <<c>>

\* if (!validatedInput.thought || validatedInput.thought.trim() === "")
NeedsGeneration(v) == ~Truthy(v.thought) \/ Trim(v.thought.val) = <<>>

Returned(input, output) == last' = [op |-> "call", input |-> input, output |-> output]

\* NullInput with the property read outside the try block.
NullInputEscapes(input) ==
  /\ input = Null
  /\ Returned(input, [kind |-> "thrown", error |-> "Cannot read properties of null"])
  /\ UNCHANGED <<thoughtHistory, branches, files, pending>>

\* `data.sessionCommand` (index.ts) or `data.query` (gemini-index.ts) on null.
NullInput(input) ==
  /\ input = Null
  /\ Returned(input, Failed("Cannot read properties of null"))
  /\ UNCHANGED <<thoughtHistory, branches, files, pending>>

\* SaveCommand handing the history over to the file: the store is emptied.
SaveCommandFlushing(input) ==
  /\ IsCommand(input, "save") /\ HasPath(input)
  /\ Get(input, "sessionPath").val \in Paths
  /\ \E outcome \in {"written", "refused", "truncated"}, ts \in Timestamps :
       /\ files' = [files EXCEPT ![Get(input, "sessionPath").val] =
                      CASE outcome = "written" -> Json(SessionData(thoughtHistory, branches, ts))
                        [] outcome = "truncated" -> Garbage
                        [] OTHER -> @]
       /\ Returned(input, SaveResponse(outcome = "written"))
  /\ thoughtHistory' = <<>>
  /\ UNCHANGED <<branches, pending>>

\* saveSession and the save branch of processThought. writeFileSync either
\* writes the file, or throws leaving it as it was or cut short.
SaveCommand(input) ==
  /\ IsCommand(input, "save") /\ HasPath(input)
  /\ Get(input, "sessionPath").val \in Paths
  /\ \E outcome \in {"written", "refused", "truncated"}, ts \in Timestamps :
       /\ files' = [files EXCEPT ![Get(input, "sessionPath").val] =
                      CASE outcome = "written" -> Json(SessionData(thoughtHistory, branches, ts))
                        [] outcome = "truncated" -> Garbage
                        [] OTHER -> @]
       /\ Returned(input, SaveResponse(outcome = "written"))
  /\ UNCHANGED <<thoughtHistory, branches, pending>>

\* LoadRefused with the store reset before the checks.
LoadRefusedClears(input) ==
  /\ IsCommand(input, "load") /\ HasPath(input)
  /\ Get(input, "sessionPath").val \in Paths
  /\ \E readable \in BOOLEAN :
       ~(readable /\ LoadAccepts(files[Get(input, "sessionPath").val]))
  /\ thoughtHistory' = <<>>
  /\ branches' = EmptyObject
  /\ Returned(input, LoadResponse(FALSE, thoughtHistory', branches'))
  /\ UNCHANGED <<files, pending>>

\* LoadRefused without the existsSync check and the catch block: the failure
\* goes unnoticed and the load is reported as done.
LoadRefusedUnnoticed(input) ==
  /\ IsCommand(input, "load") /\ HasPath(input)
  /\ Get(input, "sessionPath").val \in Paths
  /\ \E readable \in BOOLEAN :
       ~(readable /\ LoadAccepts(files[Get(input, "sessionPath").val]))
  /\ Returned(input, LoadResponse(TRUE, thoughtHistory, branches))
  /\ UNCHANGED <<thoughtHistory, branches, files, pending>>

\* loadSession returning false before it assigns anything: no file, an
\* unreadable file, a parse error, or the thoughtHistory check.
LoadRefused(input) ==
  /\ IsCommand(input, "load") /\ HasPath(input)
  /\ Get(input, "sessionPath").val \in Paths
  /\ \E readable \in BOOLEAN :
       ~(readable /\ LoadAccepts(files[Get(input, "sessionPath").val]))
  /\ Returned(input, LoadResponse(FALSE, thoughtHistory, branches))
  /\ UNCHANGED <<thoughtHistory, branches, files, pending>>

\* LoadAssigned keeping the branches the file does not name.
LoadAssignedMerging(input) ==
  /\ IsCommand(input, "load") /\ HasPath(input)
  /\ Get(input, "sessionPath").val \in Paths
  /\ LoadAccepts(files[Get(input, "sessionPath").val])
  /\ thoughtHistory' = LoadedHistory(files[Get(input, "sessionPath").val])
  /\ branches' =
       [k \in DOMAIN branches \cup DOMAIN LoadedBranches(files[Get(input, "sessionPath").val]) |->
          IF k \in DOMAIN LoadedBranches(files[Get(input, "sessionPath").val])
          THEN LoadedBranches(files[Get(input, "sessionPath").val])[k]
          ELSE branches[k]]
  /\ Returned(input, LoadResponse(~DisplayThrows(thoughtHistory'), thoughtHistory', branches'))
  /\ UNCHANGED <<files, pending>>

\* loadSession past the check: both fields are assigned, then the thoughts are
\* displayed; a throw while displaying is caught and reported as a failed load.
LoadAssigned(input) ==
  /\ IsCommand(input, "load") /\ HasPath(input)
  /\ Get(input, "sessionPath").val \in Paths
  /\ LoadAccepts(files[Get(input, "sessionPath").val])
  /\ thoughtHistory' = LoadedHistory(files[Get(input, "sessionPath").val])
  /\ branches' = LoadedBranches(files[Get(input, "sessionPath").val])
  /\ Returned(input, LoadResponse(~DisplayThrows(thoughtHistory'), thoughtHistory', branches'))
  /\ UNCHANGED <<files, pending>>

GetStateCommand(input) ==
  /\ IsCommand(input, "getState")
  /\ ~((IsCommand(input, "save") \/ IsCommand(input, "load")) /\ HasPath(input))
  /\ Returned(input, StateResponse(thoughtHistory, branches))
  /\ UNCHANGED <<thoughtHistory, branches, files, pending>>

\* UnknownCommand that also resets the store.
UnknownCommandResets(input) ==
  /\ ~((IsCommand(input, "save") \/ IsCommand(input, "load")) /\ HasPath(input))
  /\ ~IsCommand(input, "getState")
  /\ thoughtHistory' = <<>>
  /\ branches' = EmptyObject
  /\ Returned(input, UnknownResponse(Get(input, "sessionCommand")))
  /\ UNCHANGED <<files, pending>>

\* The final return of the session branch: no command matched.
UnknownCommand(input) ==
  /\ ~((IsCommand(input, "save") \/ IsCommand(input, "load")) /\ HasPath(input))
  /\ ~IsCommand(input, "getState")
  /\ Returned(input, UnknownResponse(Get(input, "sessionCommand")))
  /\ UNCHANGED <<thoughtHistory, branches, files, pending>>

\* validateThoughtData throws: the catch block answers.
RejectThought(input) ==
  /\ ValidationError(input) # ""
  /\ Returned(input, Failed(ValidationError(input)))
  /\ UNCHANGED <<thoughtHistory, branches, files, pending>>

\* validatedInput.thought is truthy and no string: .trim is not a function.
TrimThrows(input) ==
  /\ ValidationError(input) = ""
  /\ Truthy(Get(input, "thought")) /\ Get(input, "thought").ty # "string"
  /\ Returned(input, Failed("validatedInput.thought.trim is not a function"))
  /\ UNCHANGED <<thoughtHistory, branches, files, pending>>

\* StoreThought writing over the history instead of pushing onto it.
StoreThoughtReplacing(op, input, v) ==
  /\ Len(thoughtHistory) < MaxHistory
  /\ thoughtHistory' = <<v>>
  /\ branches' = BranchesAfter(branches, v)
  /\ last' = [op |-> op, input |-> input, output |-> TurnOutput(v, thoughtHistory, branches)]
  /\ UNCHANGED files

\* StoreThought editing the revised thought in place as well.
StoreThoughtRevising(op, input, v) ==
  /\ Len(thoughtHistory) < MaxHistory
  /\ thoughtHistory' =
       Append([i \in 1..Len(thoughtHistory) |->
                 IF Truthy(v.isRevision) /\ v.revisesThought = Whole(i)
                 THEN v ELSE thoughtHistory[i]], v)
  /\ branches' = BranchesAfter(branches, v)
  /\ last' = [op |-> op, input |-> input, output |-> TurnOutput(v, thoughtHistory, branches)]
  /\ UNCHANGED files

\* The tail of processThought: push, mirror into the branch, format, answer.
StoreThought(op, input, v) ==
  /\ Len(thoughtHistory) < MaxHistory
  /\ thoughtHistory' = Append(thoughtHistory, v)
  /\ branches' = BranchesAfter(branches, v)
  /\ last' = [op |-> op, input |-> input, output |-> TurnOutput(v, thoughtHistory, branches)]
  /\ UNCHANGED files

Accepted(input) ==
  /\ ValidationError(input) = ""
  /\ ~(Truthy(Get(input, "thought")) /\ Get(input, "thought").ty # "string")

\* The caller supplied the body: the turn runs to its end without suspending.
SuppliedTurn(input) ==
  LET v == AdjustTotal(validateThoughtData(input)) IN
  /\ Accepted(input)
  /\ ~NeedsGeneration(v)
  /\ StoreThought("call", input, v)
  /\ UNCHANGED pending

\* generateThoughtWithGemini throws while building the prompt; its catch block
\* returns the error thought and the turn goes on in the same tick.
PromptFailure(input) ==
  LET v == AdjustTotal(validateThoughtData(input)) IN
  /\ Accepted(input)
  /\ NeedsGeneration(v)
  /\ PromptThrows(v)
  /\ StoreThought("call", input,
                  ErrorThought(v, "input.previousThoughts.join is not a function"))
  /\ UNCHANGED pending

\* The turn suspends at `await this.model.generateContent(...)`.
Suspend(input) ==
  LET v == AdjustTotal(validateThoughtData(input)) IN
  /\ Accepted(input)
  /\ NeedsGeneration(v)
  /\ ~PromptThrows(v)
  /\ Len(pending) < MaxPending
  /\ pending' = Append(pending, [input |-> input, validatedInput |-> v])
  /\ last' = [op |-> "call", input |-> input, output |-> [kind |-> "suspended"]]
  /\ UNCHANGED <<thoughtHistory, branches, files>>

RemoveAt(s, i) == SubSeq(s, 1, i - 1) \o SubSeq(s, i + 1, Len(s))

\* generateContent resolves: the suspended turn resumes and finishes.
GeneratorReturns(i, text) ==
  /\ i \in 1..Len(pending)
  /\ StoreThought("resume", pending[i].input,
                  GeneratedThought(pending[i].validatedInput, text))
  /\ pending' = RemoveAt(pending, i)

\* generateContent rejects: the catch block of generateThoughtWithGemini.
GeneratorFails(i, message) ==
  /\ i \in 1..Len(pending)
  /\ StoreThought("resume", pending[i].input,
                  ErrorThought(pending[i].validatedInput, message))
  /\ pending' = RemoveAt(pending, i)

Resume ==
  \E i \in 1..MaxPending :
    \/ \E text \in GeneratedTexts : GeneratorReturns(i, text)
    \/ \E message \in GeneratorErrors : GeneratorFails(i, message)

\* processThought of src/index.ts, on a request that is a session command.
CommandRequest(input) ==
  \/ IsSessionCommand(input) /\ SaveCommand(input)
  \/ IsSessionCommand(input) /\ LoadRefused(input)
  \/ IsSessionCommand(input) /\ LoadAssigned(input)
  \/ IsSessionCommand(input) /\ GetStateCommand(input)
  \/ IsSessionCommand(input) /\ UnknownCommand(input)

\* processThought of src/index.ts, on a request that is none.
TurnRequest(input) ==
  \/ NullInput(input)
  \/ input # Null /\ ~IsSessionCommand(input) /\ RejectThought(input)
  \/ input # Null /\ ~IsSessionCommand(input) /\ TrimThrows(input)
  \/ input # Null /\ ~IsSessionCommand(input) /\ SuppliedTurn(input)
  \/ input # Null /\ ~IsSessionCommand(input) /\ PromptFailure(input)
  \/ input # Null /\ ~IsSessionCommand(input) /\ Suspend(input)

\* processThought of src/index.ts
ProcessThought(input) ==
  \/ CommandRequest(input)
  \/ TurnRequest(input)

\* processThought of src/gemini-index.ts: no session commands.
GeminiProcessThought(input) ==
  \/ NullInput(input)
  \/ input # Null /\ RejectThought(input)
  \/ input # Null /\ TrimThrows(input)
  \/ input # Null /\ SuppliedTurn(input)
  \/ input # Null /\ PromptFailure(input)
  \/ input # Null /\ Suspend(input)

----------------------------------------------------------------------------
(* Specifications *)

Init ==
  /\ thoughtHistory = <<>>
  /\ branches = EmptyObject
  /\ files \in [Paths -> ExternalFiles]
  /\ pending = <<>>
  /\ last = [op |-> "init", input |-> Null, output |-> [kind |-> "none"]]

\* The server of src/index.ts, serving session commands and a few turns.
Next ==
  \/ \E input \in SessionRequests : ProcessThought(input)
  \/ Resume

Spec == Init /\ [][Next]_vars

\* No session file yet.
FreshInit == Init /\ files = [p \in Paths |-> Absent]

\* The server of src/index.ts under session commands with and without a path,
\* between turns that supply their body.
PathNext ==
  \/ \E input \in PathRequests : CommandRequest(input)
  \/ \E input \in {Base, Branching(Base, "b1")} : SuppliedTurn(input)

PathSpec == Init /\ [][PathNext]_vars

\* Turns of every kind, for a generator that settles every call.
LiveRequests ==
  {Base, Dummy, Branching(Without(Base, "thought"), "b1"),
   Branching(Without(Base, "thought"), "constructor"), BadPrevious,
   With(Base, "thought", Whole(5)), With(Base, "query", Str(<<>>)), Null}

\* A reply without markers.
LiveTexts == {<<"Fine.">>}

\* generateContent settles for some suspended turn.
Settle ==
  \E i \in 1..MaxPending :
    \/ \E text \in LiveTexts : GeneratorReturns(i, text)
    \/ \E message \in GeneratorErrors : GeneratorFails(i, message)

\* The server of src/index.ts with a client that stops sending once the
\* turns taken up fill the history, and a generator that settles every call:
\* the continuation of a settled promise is run.
LiveNext ==
  \/ \E input \in LiveRequests :
       Len(thoughtHistory) + Len(pending) < MaxHistory /\ TurnRequest(input)
  \/ Settle

LiveSpec == FreshInit /\ [][LiveNext]_vars /\ WF_vars(Settle)

\* The server of src/index.ts under revisions and changing totals.
RevisionNext ==
  \/ \E input \in RevisionRequests : TurnRequest(input)
  \/ Resume

RevisionSpec == FreshInit /\ [][RevisionNext]_vars

\* The server of src/index.ts when every request is a thought turn.
TurnNext ==
  \/ \E input \in TurnRequests : TurnRequest(input)
  \/ Resume

TurnSpec == FreshInit /\ [][TurnNext]_vars

\* The server of src/index.ts when every request is a branching turn.
BranchNext ==
  \/ \E input \in BranchRequests : TurnRequest(input)
  \/ Resume

BranchSpec == FreshInit /\ [][BranchNext]_vars

\* The server of src/gemini-index.ts, which the session-manager client spawns.
GeminiNext ==
  \/ \E input \in GeminiRequests : GeminiProcessThought(input)
  \/ Resume

GeminiSpec == FreshInit /\ [][GeminiNext]_vars

\* The server of src/index.ts with a generator that may answer with nothing.
GenerationNext ==
  \/ \E input \in GenerationRequests : TurnRequest(input)
  \/ \E i \in 1..MaxPending :
       \/ \E text \in GeneratedTexts \cup BlankTexts \cup MarkerTexts :
            GeneratorReturns(i, text)
       \/ \E message \in GeneratorErrors : GeneratorFails(i, message)

GenerationSpec == FreshInit /\ [][GenerationNext]_vars

\* A client that writes into `context` how many of its turns the server has
\* taken up before this one.
Stamped(input) ==
  IF input = Null THEN Null
  ELSE With(input, "context", Str(<<Len(thoughtHistory) + Len(pending)>>))

ArrivalOf(v) == v.context.val[1]

\* The server of src/index.ts, serving that client.
ArrivalNext ==
  \/ \E input \in GenerationRequests : TurnRequest(Stamped(input))
  \/ Resume

ArrivalSpec == FreshInit /\ [][ArrivalNext]_vars

----------------------------------------------------------------------------
(* Strings of the analysis client, as sequences of characters *)

UpperCase ==
  ("A" :> "a") @@ ("B" :> "b") @@ ("C" :> "c") @@ ("D" :> "d") @@ ("E" :> "e") @@
  ("F" :> "f") @@ ("G" :> "g") @@ ("H" :> "h") @@ ("I" :> "i") @@ ("J" :> "j") @@
  ("K" :> "k") @@ ("L" :> "l") @@ ("M" :> "m") @@ ("N" :> "n") @@ ("O" :> "o") @@
  ("P" :> "p") @@ ("Q" :> "q") @@ ("R" :> "r") @@ ("S" :> "s") @@ ("T" :> "t") @@
  ("U" :> "u") @@ ("V" :> "v") @@ ("W" :> "w") @@ ("X" :> "x") @@ ("Y" :> "y") @@
  ("Z" :> "z")

\* String.prototype.toLowerCase
ToLowerCase(s) ==
  [i \in 1..Len(s) |-> IF s[i] \in DOMAIN UpperCase THEN UpperCase[s[i]] ELSE s[i]]

\* String.prototype.startsWith
StartsWith(s, p) == Len(s) >= Len(p) /\ SubSeq(s, 1, Len(p)) = p

\* String.prototype.includes
Includes(s, p) == \E i \in 1..(Len(s) - Len(p) + 1) : SubSeq(s, i, i + Len(p) - 1) = p

\* String.prototype.split(c) for a single character c.
RECURSIVE Split(_, _)
Split(s, c) ==
  IF FirstIn(s, {c}, 1) = 0
  THEN <<s>>
  ELSE <<SubSeq(s, 1, FirstIn(s, {c}, 1) - 1)>>
         \o Split(SubSeq(s, FirstIn(s, {c}, 1) + 1, Len(s)), c)

\* String.prototype.split(/\s+/): a run of whitespace is one separator.
RECURSIVE SplitWhitespace(_)
SplitWhitespace(s) ==
  IF FirstIn(s, Whitespace, 1) = 0
  THEN <<s>>
  ELSE <<SubSeq(s, 1, FirstIn(s, Whitespace, 1) - 1)>>
         \o SplitWhitespace(TrimStart(SubSeq(s, FirstIn(s, Whitespace, 1), Len(s))))

\* Sum of f[i] over i in 1..n.
RECURSIVE SumTo(_, _)
SumTo(f, n) == IF n = 0 THEN 0 ELSE f[n] + SumTo(f, n - 1)

----------------------------------------------------------------------------
(* new RegExp(term, 'g') and String.prototype.match, for terms made of
   literal characters, `.`, the quantifiers `+` and `*`, and parentheses *)

Quantifiers == {"+", "*"}

\* More `)` than `(` in some prefix, or not as many in the whole.
Unbalanced(p) ==
  LET Opens(n) == Cardinality({j \in 1..n : p[j] = "("})
      Closes(n) == Cardinality({j \in 1..n : p[j] = ")"})
  IN  \/ Opens(Len(p)) # Closes(Len(p))
      \/ \E n \in 1..Len(p) : Closes(n) > Opens(n)

\* new RegExp(p) throws a SyntaxError: an unterminated or unmatched group, or
\* a quantifier with nothing to repeat.
PatternThrows(p) ==
  \/ Unbalanced(p)
  \/ \E j \in 1..Len(p) :
       /\ p[j] \in Quantifiers
       /\ (j = 1 \/ p[j - 1] \in Quantifiers \cup {"("})

\* The atoms of a pattern without parentheses: a character or `.`, each with
\* the quantifier that follows it.
RECURSIVE Atoms(_)
Atoms(p) ==
  IF p = <<>> THEN <<>>
  ELSE IF Len(p) > 1 /\ p[2] \in Quantifiers
  THEN <<[ch |-> p[1], min |-> IF p[2] = "+" THEN 1 ELSE 0, many |-> TRUE]>>
         \o Atoms(SubSeq(p, 3, Len(p)))
  ELSE <<[ch |-> p[1], min |-> 1, many |-> FALSE]>> \o Atoms(Tail(p))

\* The atom matches the character: `.` matches all but the line terminator.
AtomMatches(a, c) == IF a.ch = "." THEN c # "\n" ELSE a.ch = c

\* How many characters of s from position i on the atom can take.
RECURSIVE Run(_, _, _)
Run(a, s, i) ==
  IF i > Len(s) \/ ~AtomMatches(a, s[i]) THEN 0
  ELSE IF a.many THEN 1 + Run(a, s, i + 1) ELSE 1

\* The position after the match of atoms k.. at position i of s, greedy with
\* backtracking; -1 when there is no match. TryTake gives atom k n characters
\* and fewer when the rest does not match.
RECURSIVE MatchAt(_, _, _, _), TryTake(_, _, _, _, _)
MatchAt(atoms, k, s, i) ==
  IF k > Len(atoms) THEN i
  ELSE TryTake(atoms, k, s, i, Run(atoms[k], s, i))

TryTake(atoms, k, s, i, n) ==
  IF n < atoms[k].min THEN -1
  ELSE IF MatchAt(atoms, k + 1, s, i + n) # -1 THEN MatchAt(atoms, k + 1, s, i + n)
  ELSE TryTake(atoms, k, s, i, n - 1)

\* The length of s.match(new RegExp(p, 'g')), 0 for null: matches are taken
\* left to right without overlap, an empty match moves on by one character.
RECURSIVE CountFrom(_, _, _)
CountFrom(atoms, s, i) ==
  IF i > Len(s) + 1 THEN 0
  ELSE IF MatchAt(atoms, 1, s, i) = -1 THEN CountFrom(atoms, s, i + 1)
  ELSE IF MatchAt(atoms, 1, s, i) = i THEN 1 + CountFrom(atoms, s, i + 1)
  ELSE 1 + CountFrom(atoms, s, MatchAt(atoms, 1, s, i))

\* Parentheses of a pattern that compiles only group: the model's terms carry
\* no quantifier behind a group.
MatchCount(s, p) ==
  LET Plain(c) == c \notin {"(", ")"}
  IN  CountFrom(Atoms(SelectSeq(p, Plain)), s, 1)

----------------------------------------------------------------------------
(* semanticCodeFilter *)

FileTag == <<"F", "i", "l", "e", ":", " ">>

\* .filter(term => term.length > 3)
TermLength == 3

\* .slice(0, 10)
TopFiles == 10

\* Map.prototype.set on a map kept as the sequence of its entries: a key that
\* is there keeps its place.
MapSet(m, file, content) ==
  IF \E i \in 1..Len(m) : m[i].file = file
  THEN [i \in 1..Len(m) |-> IF m[i].file = file THEN [m[i] EXCEPT !.content = content] ELSE m[i]]
  ELSE Append(m, [file |-> file, content |-> content])

\* if (currentFile && currentFileContent) fileContent.set(...)
Saved(fileContent, currentFile, currentFileContent) ==
  IF currentFile # <<>> /\ currentFileContent # <<>>
  THEN MapSet(fileContent, currentFile, currentFileContent)
  ELSE fileContent

\* First pass, from line k on: the files and their content.
RECURSIVE Collect(_, _, _, _, _)
Collect(lines, k, currentFile, currentFileContent, fileContent) ==
  IF k > Len(lines)
  THEN Saved(fileContent, currentFile, currentFileContent)
  ELSE IF StartsWith(lines[k], FileTag)
  THEN Collect(lines, k + 1, Trim(SubSeq(lines[k], Len(FileTag) + 1, Len(lines[k]))),
               lines[k] \o <<"\n">>,
               Saved(fileContent, currentFile, currentFileContent))
  ELSE IF currentFile # <<>>
  THEN Collect(lines, k + 1, currentFile, currentFileContent \o lines[k] \o <<"\n">>,
               fileContent)
  ELSE Collect(lines, k + 1, currentFile, currentFileContent, fileContent)

\* query.toLowerCase().split(/\s+/).filter(term => term.length > 3)
QueryTerms(query) ==
  LET Long(term) == Len(term) > TermLength
  IN  SelectSeq(SplitWhitespace(ToLowerCase(query)), Long)

\* Second pass, before the file-name adjustment: two per match of a query
\* term, one per match of a keyword.
RawScore(content, queryTerms, keywords) ==
  2 * SumTo([i \in 1..Len(queryTerms) |-> MatchCount(ToLowerCase(content), queryTerms[i])],
            Len(queryTerms))
    + SumTo([i \in 1..Len(keywords) |->
               MatchCount(ToLowerCase(content), ToLowerCase(keywords[i]))],
            Len(keywords))

IsTestFile(file) ==
  Includes(file, <<"t", "e", "s", "t">>) \/ Includes(file, <<"s", "p", "e", "c">>)

IsDefinitionFile(file) ==
  \/ Includes(file, <<"i", "n", "t", "e", "r", "f", "a", "c", "e">>)
  \/ Includes(file, <<"t", "y", "p", "e">>)
  \/ Includes(file, <<"m", "o", "d", "e", "l">>)

\* Score with the second weight skipped once the first has applied.
ScoreShortCircuited(file, content, queryTerms, keywords) ==
  LET raw == RawScore(content, queryTerms, keywords) * 100
  IN  IF IsTestFile(file) THEN raw \div 2
      ELSE IF IsDefinitionFile(file) THEN (raw * 3) \div 2 ELSE raw

\* The score of a file, in hundredths: halved for test files, then times 1.5
\* for definition files.
Score(file, content, queryTerms, keywords) ==
  LET raw == RawScore(content, queryTerms, keywords) * 100
      halved == IF IsTestFile(file) THEN raw \div 2 ELSE raw
  IN  IF IsDefinitionFile(file) THEN (halved * 3) \div 2 ELSE halved

\* Array.prototype.sort((a, b) => b[1] - a[1]): descending, stable.
RECURSIVE SortByScore(_)
SortByScore(entries) ==
  IF entries = <<>> THEN <<>>
  ELSE LET sorted == SortByScore(SubSeq(entries, 1, Len(entries) - 1))
           x == entries[Len(entries)]
           before == Cardinality({i \in 1..Len(sorted) : sorted[i].score >= x.score})
       IN  SubSeq(sorted, 1, before) \o <<x>> \o SubSeq(sorted, before + 1, Len(sorted))

\* relevantCode: the content of the files of `top`, each followed by a newline.
RECURSIVE Combined(_, _)
Combined(top, fileContent) ==
  IF top = <<>> THEN <<>>
  ELSE (CHOOSE e \in {fileContent[i] : i \in 1..Len(fileContent)} :
          e.file = top[1].file).content
         \o <<"\n">> \o Combined(Tail(top), fileContent)

\* FilterThrows with the patterns compiled ahead of the loop over the files.
FilterThrowsEagerly(fileContent, queryTerms, keywords) ==
  \/ \E i \in 1..Len(queryTerms) : PatternThrows(queryTerms[i])
  \/ \E j \in 1..Len(keywords) : PatternThrows(ToLowerCase(keywords[j]))

\* new RegExp throws while a file is scored.
FilterThrows(fileContent, queryTerms, keywords) ==
  /\ fileContent # <<>>
  /\ \/ \E i \in 1..Len(queryTerms) : PatternThrows(queryTerms[i])
     \/ \E j \in 1..Len(keywords) : PatternThrows(ToLowerCase(keywords[j]))

\* semanticCodeFilter: what it returns, with the scores it logs, or that it
\* throws.
semanticCodeFilter(codebaseText, query, keywords) ==
  LET fileContent == Collect(Split(codebaseText, "\n"), 1, <<>>, <<>>, <<>>)
      queryTerms == QueryTerms(query)
      fileScores == [i \in 1..Len(fileContent) |->
                       [file |-> fileContent[i].file,
                        score |-> Score(fileContent[i].file, fileContent[i].content,
                                        queryTerms, keywords)]]
      sortedFiles == SubSeq(SortByScore(fileScores), 1,
                            IF Len(fileScores) < TopFiles THEN Len(fileScores) ELSE TopFiles)
  IN  IF FilterThrows(fileContent, queryTerms, keywords)
      THEN [kind |-> "thrown", error |-> "SyntaxError: Invalid regular expression"]
      ELSE [kind |-> "returned", sortedFiles |-> sortedFiles,
            relevantCode |-> Combined(sortedFiles, fileContent)]

\* A section of a repomix document: the `File: ` line and the body.
Section(name, body) == FileTag \o name \o <<"\n">> \o body \o <<"\n">>

PlainName == <<"a", ".", "t", "s">>
TestName == <<"b", ".", "t", "e", "s", "t", ".", "t", "s">>

\* `foo` three times.
FooBody == <<"f", "o", "o", " ", "F", "o", "o", "\n", "f", "o", "o">>

\* `a.ts` once, and once with another character for the dot.
DotBody == <<"a", "x", "t", "s", " ", "a", ".", "t", "s", " ", "f", "o", "o", "o">>

Documents ==
  {<<>>,
   <<"h", "i", "\n", "f", "i", "l", "e", ":", " ", "x", "\n", " ">> \o FileTag,
   Section(PlainName, FooBody) \o Section(TestName, FooBody),
   Section(TestName, FooBody) \o Section(PlainName, FooBody),
   Section(PlainName, DotBody),
   <<"h", "i", "\n">> \o Section(TestName, DotBody) \o Section(<<>>, FooBody)}

Queries ==
  {<<>>,
   <<"f", "o", "o", " ", "b", "a", "r">>,
   <<"F", "o", "o", "o", " ", " ", "b", "a", "r">>,
   <<"a", ".", "t", "s">>,
   <<"f", "o", "o", "(">>,
   <<"*", "f", "o", "o">>}

KeywordLists ==
  {<<>>, <<<<"f", "o", "o">>>>, <<<<"o", "+">>, <<"T", "s">>>>}

\* One call of semanticCodeFilter by the analysis client.
CallFilter(codebaseText, query, keywords) ==
  /\ last' = [op |-> "semanticCodeFilter",
              input |-> [codebaseText |-> codebaseText, query |-> query,
                         keywords |-> keywords],
              output |-> semanticCodeFilter(codebaseText, query, keywords)]
  /\ UNCHANGED <<thoughtHistory, branches, files, pending>>

FilterNext ==
  \E codebaseText \in Documents, query \in Queries, keywords \in KeywordLists :
    CallFilter(codebaseText, query, keywords)

FilterSpec == FreshInit /\ [][FilterNext]_vars

\* Names with and without the substrings the weights look for.
CapitalTestName == <<"F", "o", "o", ".", "T", "e", "s", "t", ".", "t", "s">>
LowerTestName == <<"f", "o", "o", ".", "t", "e", "s", "t", ".", "t", "s">>
TestModelName == <<"t", "e", "s", "t", ".", "m", "o", "d", "e", "l", ".", "t", "s">>
TypeName == <<"t", "y", "p", "e", ".", "t", "s">>

\* `fooo` k times.
RECURSIVE Fooos(_)
Fooos(k) == IF k = 0 THEN <<>> ELSE <<"f", "o", "o", "o", " ">> \o Fooos(k - 1)

SectionLetters == <<"a", "b", "c", "d", "e", "f", "g", "h", "i", "j", "k">>

\* Sections k..n named by one letter each, with 0, 1 or 2 `fooo` in turn.
RECURSIVE LetterSections(_, _)
LetterSections(k, n) ==
  IF k > n THEN <<>>
  ELSE Section(<<SectionLetters[k], ".", "t", "s">>, Fooos(k % 3)) \o LetterSections(k + 1, n)

\* Documents for the weights, the ranking and the partition: names that
\* differ in case, names with both kinds of substring, eleven sections, one
\* name twice, an empty name behind text that precedes the first section, and
\* a last line without a newline.
RankingDocuments ==
  {Section(CapitalTestName, Fooos(2)) \o Section(LowerTestName, Fooos(2)),
   Section(TestModelName, Fooos(2)) \o Section(TypeName, Fooos(2))
     \o Section(PlainName, Fooos(2)) \o Section(TestName, Fooos(2)),
   LetterSections(1, Len(SectionLetters)),
   Section(PlainName, Fooos(3)) \o Section(TypeName, Fooos(1)) \o Section(PlainName, Fooos(0)),
   Fooos(1) \o <<"\n">> \o Section(<<>>, Fooos(3)) \o Section(PlainName, Fooos(1)),
   Section(TypeName, Fooos(1)) \o FileTag \o PlainName \o <<"\n">> \o Fooos(2),
   LetterSections(1, 3),
   Fooos(2)}

RankingQueries ==
  {<<>>, <<"f", "o", "o", "o">>, <<"F", "o", "o", "o", " ", "b", "a", "r">>, <<"q", "u", "u", "x">>}

RankingKeywords ==
  {<<>>, <<<<"f", "o", "o", "o">>>>, <<<<"t", "s">>>>, <<<<"o", "+">>, <<"F", "o", "o">>>>}

\* The analysis client filters the document it has packed, once in a run.
RankingNext ==
  \E codebaseText \in RankingDocuments, query \in RankingQueries, keywords \in RankingKeywords :
    last.op = "init" /\ CallFilter(codebaseText, query, keywords)

RankingSpec == FreshInit /\ [][RankingNext]_vars

----------------------------------------------------------------------------
(* extractKeywords of the analysis client *)

stopWords ==
  {<<"a">>, <<"a", "n">>, <<"t", "h", "e">>, <<"a", "n", "d">>,
   <<"o", "r">>, <<"b", "u", "t">>, <<"i", "n">>, <<"o", "n">>,
   <<"a", "t">>, <<"t", "o">>, <<"f", "o", "r">>, <<"w", "i", "t", "h">>,
   <<"a", "b", "o", "u", "t">>, <<"i", "s">>, <<"a", "r", "e">>, <<"w", "a", "s">>,
   <<"w", "e", "r", "e">>, <<"b", "e">>, <<"b", "e", "e", "n">>, <<"b", "e", "i", "n", "g">>,
   <<"h", "a", "v", "e">>, <<"h", "a", "s">>, <<"h", "a", "d">>, <<"d", "o">>,
   <<"d", "o", "e", "s">>, <<"d", "i", "d">>, <<"c", "a", "n">>, <<"c", "o", "u", "l", "d">>,
   <<"w", "i", "l", "l">>, <<"w", "o", "u", "l", "d">>, <<"s", "h", "o", "u", "l", "d">>, <<"s", "h", "a", "l", "l">>,
   <<"m", "a", "y">>, <<"m", "i", "g", "h", "t">>, <<"m", "u", "s", "t">>, <<"o", "f">>,
   <<"b", "y">>, <<"a", "s">>, <<"i", "f">>, <<"t", "h", "e", "n">>,
   <<"e", "l", "s", "e">>, <<"w", "h", "e", "n">>, <<"w", "h", "e", "r", "e">>, <<"w", "h", "y">>,
   <<"h", "o", "w">>, <<"a", "l", "l">>, <<"a", "n", "y">>, <<"b", "o", "t", "h">>,
   <<"e", "a", "c", "h">>, <<"f", "e", "w">>, <<"m", "o", "r", "e">>, <<"m", "o", "s", "t">>,
   <<"o", "t", "h", "e", "r">>, <<"s", "o", "m", "e">>, <<"s", "u", "c", "h">>, <<"n", "o">>,
   <<"n", "o", "r">>, <<"n", "o", "t">>, <<"o", "n", "l", "y">>, <<"o", "w", "n">>,
   <<"s", "a", "m", "e">>, <<"s", "o">>, <<"t", "h", "a", "n">>, <<"t", "o", "o">>,
   <<"v", "e", "r", "y">>, <<"t", "h", "i", "s">>, <<"t", "h", "a", "t">>, <<"t", "h", "e", "s", "e">>,
   <<"t", "h", "o", "s", "e">>}

Digits == {"0", "1", "2", "3", "4", "5", "6", "7", "8", "9"}

\* The characters of \w.
WordCharacters ==
  {"a", "b", "c", "d", "e", "f", "g", "h", "i", "j", "k", "l", "m",
   "n", "o", "p", "q", "r", "s", "t", "u", "v", "w", "x", "y", "z", "_"}
  \cup DOMAIN UpperCase \cup Digits

WordLength == 3
TopKeywords == 10

\* String.prototype.replace(/[^\w\s]/g, '')
RemovePunctuation(s) ==
  LET Kept(c) == c \in WordCharacters \cup Whitespace
  IN  SelectSeq(s, Kept)

\* query.toLowerCase().replace(...).split(/\s+/).filter(...)
KeywordWords(query) ==
  LET Kept(word) == word \notin stopWords /\ Len(word) > WordLength
  IN  SelectSeq(SplitWhitespace(RemovePunctuation(ToLowerCase(query))), Kept)

\* The value of a word of digits.
RECURSIVE DigitsValue(_)
DigitsValue(word) ==
  IF word = <<>> THEN 0
  ELSE 10 * DigitsValue(SubSeq(word, 1, Len(word) - 1))
       + (CHOOSE d \in 0..9 : ToString(d) = Last(word))

\* A property key that is an array index (of up to nine digits, as the words
\* of the texts are): an object lists these first, in ascending order,
\* whatever the order they were added in.
IsIndexKey(word) ==
  /\ word # <<>>
  /\ \A i \in 1..Len(word) : word[i] \in Digits
  /\ (Len(word) > 1 => word[1] # "0")
  /\ Len(word) <= 9

\* wordFreq[word] = (wordFreq[word] || 0) + 1, on the entries of wordFreq in
\* the order Object.entries gives them.
Counted(wordFreq, word) ==
  IF \E i \in 1..Len(wordFreq) : wordFreq[i].word = word
  THEN [i \in 1..Len(wordFreq) |->
          IF wordFreq[i].word = word
          THEN [wordFreq[i] EXCEPT !.count = @ + 1]
          ELSE wordFreq[i]]
  ELSE IF IsIndexKey(word)
  THEN LET before == Cardinality({i \in 1..Len(wordFreq) :
                                    /\ IsIndexKey(wordFreq[i].word)
                                    /\ DigitsValue(wordFreq[i].word) < DigitsValue(word)})
       IN  SubSeq(wordFreq, 1, before) \o <<[word |-> word, count |-> 1]>>
             \o SubSeq(wordFreq, before + 1, Len(wordFreq))
  ELSE Append(wordFreq, [word |-> word, count |-> 1])

\* The loop over the words, from word k on.
RECURSIVE WordFreq(_, _, _)
WordFreq(words, k, wordFreq) ==
  IF k > Len(words) THEN wordFreq
  ELSE WordFreq(words, k + 1, Counted(wordFreq, words[k]))

\* Array.prototype.sort((a, b) => b[1] - a[1]) on the entries: descending
\* count, stable.
RECURSIVE SortByCount(_)
SortByCount(entries) ==
  IF entries = <<>> THEN <<>>
  ELSE LET sorted == SortByCount(SubSeq(entries, 1, Len(entries) - 1))
           x == entries[Len(entries)]
           before == Cardinality({i \in 1..Len(sorted) : sorted[i].count >= x.count})
       IN  SubSeq(sorted, 1, before) \o <<x>> \o SubSeq(sorted, before + 1, Len(sorted))

extractKeywords(query) ==
  LET sorted == SortByCount(WordFreq(KeywordWords(query), 1, <<>>))
      keywords == [i \in 1..Len(sorted) |-> sorted[i].word]
  IN  SubSeq(keywords, 1, IF Len(keywords) < TopKeywords THEN Len(keywords) ELSE TopKeywords)

\* The words the texts are made of. A word that names a property every object
\* inherits (constructor, __proto__) is left out: its count is no number and
\* the order the comparator then gives is up to the engine.
Vocabulary ==
  {<<"z", "e", "t", "a">>, <<"2", "0", "2", "4">>, <<"B", "e", "t", "a", ",">>,
   <<"t", "h", "o", "s", "e">>, <<"f", "o", "o">>, <<"1", "9", "9", "9">>,
   <<"b", "e", "-", "t", "a">>}

MaxWords == 3

\* The texts of up to n words, a blank between two words.
RECURSIVE Texts(_)
Texts(n) ==
  IF n = 0 THEN {<<>>}
  ELSE Texts(n - 1)
       \cup Vocabulary
       \cup {t \o <<" ">> \o w : t \in Texts(n - 1) \ {<<>>}, w \in Vocabulary}

\* The call of extractKeywords by the analysis client, one in a run.
CallKeywords(query) ==
  /\ last.op = "init"
  /\ last' = [op |-> "extractKeywords", input |-> query,
              output |-> extractKeywords(query)]
  /\ UNCHANGED <<thoughtHistory, branches, files, pending>>

KeywordNext == \E query \in Texts(MaxWords) : CallKeywords(query)

KeywordSpec == FreshInit /\ [][KeywordNext]_vars

----------------------------------------------------------------------------
(* The sequential driver loop of the clients *)

\* The number NaN: falsy, and in no order with any number.
NaN == [ty |-> "number", val |-> 0, nan |-> TRUE]

IsNaN(v) == "nan" \in DOMAIN v

\* a + b for a number b: NaN unless a is a number.
Plus(a, b) ==
  IF a.ty = "number" /\ ~IsNaN(a) /\ ~IsNaN(b) THEN Num(a.val + b.val) ELSE NaN

\* a <= b
LessOrEqual(a, b) ==
  /\ a.ty = "number" /\ b.ty = "number"
  /\ ~IsNaN(a) /\ ~IsNaN(b)
  /\ a.val <= b.val

RECURSIVE LeadingDigits(_)
LeadingDigits(s) ==
  IF s # <<>> /\ Head(s) \in Digits THEN <<Head(s)>> \o LeadingDigits(Tail(s)) ELSE <<>>

\* parseInt(s, 10): leading whitespace, a sign, then the digits up to the
\* first character that is none; NaN when there is no digit.
parseInt(s) ==
  LET t == TrimStart(s)
      signed == t # <<>> /\ Head(t) \in {"-", "+"}
      digits == LeadingDigits(IF signed THEN Tail(t) ELSE t)
  IN IF digits = <<>> THEN NaN
     ELSE IF signed /\ Head(t) = "-" THEN Whole(0 - DigitsValue(digits))
     ELSE Whole(DigitsValue(digits))

\* parseInt(totalThoughtsStr, 10) || 3
TotalThoughts(totalThoughtsStr) ==
  IF Truthy(parseInt(totalThoughtsStr)) THEN parseInt(totalThoughtsStr) ELSE Whole(3)

\* thoughtNumber = response.thoughtNumber + 1, holding the number as it is.
NextThoughtNumberSame(response) == Get(response, "thoughtNumber")

\* thoughtNumber = response.thoughtNumber + 1
NextThoughtNumber(response) == Plus(Get(response, "thoughtNumber"), Whole(1))

\* What the user types at the prompts of a session.
ClientQueries == {<<"q">>, <<>>}
ClientContexts == {<<"c">>, <<>>}
ClientApproaches == {<<"a">>, <<>>}
TotalAnswers ==
  {<<"1">>, <<"2">>, <<"3">>, <<"2", "x">>, <<" ", "1">>, <<"-", "1">>, <<"0">>,
   <<"x">>, <<>>}
ContinueAnswers == {<<"y">>, <<"Y">>, <<"n">>, <<"y", "e", "s">>, <<>>}

\* What the collaborator replies to the prompts of the loop.
ClientTexts == {<<"Fine.">>, <<>>}

\* while (nextThoughtNeeded && thoughtNumber <= totalThoughts)
LoopCondition(l) ==
  Truthy(l.nextThoughtNeeded) /\ LessOrEqual(l.thoughtNumber, l.totalThoughts)

\* The arguments of the call, built from the locals l of the loop.
Args(l) ==
  LET required ==
        [query |-> l.query, thoughtNumber |-> l.thoughtNumber,
         totalThoughts |-> l.totalThoughts, nextThoughtNeeded |-> Bool(TRUE)]
      contexted ==
        IF Truthy(l.context) THEN With(required, "context", l.context) ELSE required
      approached ==
        IF Truthy(l.approach) THEN With(contexted, "approach", l.approach) ELSE contexted
  IN IF Len(l.previousThoughts) > 0
     THEN With(approached, "previousThoughts", Arr(l.previousThoughts))
     ELSE approached

\* The prompts before the loop and the initial values of its locals; `last`
\* holds the locals while the client is at the head of the loop.  Totals the
\* history of the model has no room for are left out.
Start(query, context, approach, totalThoughtsStr) ==
  /\ last.op = "init"
  /\ LessOrEqual(TotalThoughts(totalThoughtsStr), Whole(MaxHistory))
  /\ last' = [op |-> "loop", input |-> Null, output |-> [kind |-> "none"],
              query |-> Str(query), context |-> Str(context),
              approach |-> Str(approach),
              totalThoughts |-> TotalThoughts(totalThoughtsStr),
              thoughtNumber |-> Whole(1), nextThoughtNeeded |-> Bool(TRUE),
              previousThoughts |-> <<>>, continueResponse |-> Undefined]
  /\ UNCHANGED <<thoughtHistory, branches, files, pending>>

\* client.callTool("geminithinking", args): the server takes the request up.
Call ==
  /\ last.op = "loop"
  /\ LoopCondition(last)
  /\ TurnRequest(Args(last))

\* generateContent settles for the suspended turn of the client.
Answers ==
  \/ \E text \in ClientTexts : GeneratorReturns(1, text)
  \/ \E message \in GeneratorErrors : GeneratorFails(1, message)

\* The rest of the loop body once callTool has resolved: the response is
\* parsed, the locals are updated and the user is asked whether to go on.
Receive(continueResponse) ==
  LET response == last.output
      args == last.input
      thoughtNumber == NextThoughtNumber(response)
      nextThoughtNeeded == Get(response, "nextThoughtNeeded")
      previousThoughts ==
        IF "previousThoughts" \in DOMAIN args THEN args.previousThoughts.val ELSE <<>>
      asked ==
        Truthy(nextThoughtNeeded) /\ LessOrEqual(thoughtNumber, args.totalThoughts)
  IN /\ last.op \in {"call", "resume"}
     /\ response.kind # "suspended"
     /\ last' = [op |-> "loop", input |-> args, output |-> response,
                 query |-> args.query, context |-> Get(args, "context"),
                 approach |-> Get(args, "approach"),
                 totalThoughts |-> args.totalThoughts,
                 thoughtNumber |-> thoughtNumber,
                 nextThoughtNeeded |->
                   IF asked /\ ToLowerCase(continueResponse) # <<"y">>
                   THEN Bool(FALSE) ELSE nextThoughtNeeded,
                 previousThoughts |->
                   IF Truthy(Get(response, "thought"))
                   THEN Append(previousThoughts, response.thought)
                   ELSE previousThoughts,
                 continueResponse |->
                   IF asked THEN Str(continueResponse) ELSE Undefined]
     /\ UNCHANGED <<thoughtHistory, branches, files, pending>>

\* One session of the client against the server of src/index.ts.
ClientNext ==
  \/ \E query \in ClientQueries, context \in ClientContexts,
        approach \in ClientApproaches, totalThoughtsStr \in TotalAnswers :
       Start(query, context, approach, totalThoughtsStr)
  \/ Call
  \/ Answers
  \/ \E continueResponse \in ContinueAnswers : Receive(continueResponse)

\* The server answers every call and the user every prompt.
ClientSpec == FreshInit /\ [][ClientNext]_vars /\ WF_vars(ClientNext)

----------------------------------------------------------------------------
(* Properties *)

ThePath == <<"s.json">>

\* The latest step answered with the envelope of a stored thought.
ThoughtReturned == last.output.kind = "thought"

\* Two stored thoughts agree on every property a reader can observe.
SameThought(a, b) ==
  IF IsTagged(a) \/ IsTagged(b)
  THEN a = b
  ELSE \A f \in DOMAIN a \cup DOMAIN b : Get(a, f) = Get(b, f)

SameThoughts(x, y) ==
  Len(x) = Len(y) /\ \A i \in 1..Len(x) : SameThought(x[i], y[i])

SameBranches(x, y) ==
  DOMAIN x = DOMAIN y /\ \A k \in DOMAIN x : SameThoughts(x[k], y[k])

\* C1: a thought turn that passes validation with thoughtNumber > totalThoughts
\* is not answered with a validation error, and when its thought is stored,
\* the stored thought and the envelope both carry totalThoughts = thoughtNumber.
C1_TotalRaisedToIndex ==
  (/\ last.op \in {"call", "resume"}
   /\ ValidationError(last.input) = ""
   /\ last.input.thoughtNumber.val > last.input.totalThoughts.val)
  => /\ last.output.kind = "failed" =>
          last.output.error \notin {"Invalid thoughtNumber: must be a number",
                                    "Invalid totalThoughts: must be a number"}
     /\ ThoughtReturned =>
          /\ Last(thoughtHistory).thoughtNumber = last.input.thoughtNumber
          /\ Last(thoughtHistory).totalThoughts = last.input.thoughtNumber
          /\ last.output.totalThoughts = last.input.thoughtNumber

\* C1 witness: a generated turn sent with thoughtNumber 2 of 1 has been stored.
C1_Witness ==
  /\ last.op = "resume"
  /\ ThoughtReturned
  /\ last.input.thoughtNumber.val > last.input.totalThoughts.val

\* C2: no step of a turn drops or rewrites a history entry or adds more than
\* one; a turn that returns its thought has added exactly one and reports the
\* new length, so N such turns from the empty store leave and report length N.
C2_AppendAddsOne ==
  [][/\ SubSeq(thoughtHistory', 1, Len(thoughtHistory)) = thoughtHistory
     /\ Len(thoughtHistory') <= Len(thoughtHistory) + 1
     /\ last'.output.kind = "thought" =>
          /\ Len(thoughtHistory') = Len(thoughtHistory) + 1
          /\ last'.output.thoughtHistoryLength = Len(thoughtHistory')]_vars

\* C2 witness: the second turn has returned and reports a history of two.
C2_Witness ==
  /\ ThoughtReturned
  /\ Len(thoughtHistory) = 2
  /\ last.output.thoughtHistoryLength = 2
  /\ thoughtHistory[1] # thoughtHistory[2]

\* C3 (as claimed): a thought appended with branchFromThought set and a
\* non-empty branchId is the last element of the branch list of that id.
C3_BranchedThoughtMirrored ==
  [][(/\ Len(thoughtHistory') = Len(thoughtHistory) + 1
      /\ Mirrors(Last(thoughtHistory')))
     => /\ Last(thoughtHistory').branchId.val \in DOMAIN branches'
        /\ Last(branches'[Last(thoughtHistory').branchId.val]) = Last(thoughtHistory')]_vars

\* C4: right after a successful save the file, read back by loadSession, gives a
\* history and a branch mapping equal to the store's, and a successful load
\* leaves the store holding exactly what the file gives; so load after save
\* restores the saved store, whatever the timestamp written.
C4_RoundTrip ==
  /\ (last.output.kind = "save" /\ last.output.status = "success")
       => /\ LoadAccepts(files[ThePath])
          /\ SameThoughts(LoadedHistory(files[ThePath]), thoughtHistory)
          /\ SameBranches(LoadedBranches(files[ThePath]), branches)
  /\ (last.output.kind = "load" /\ last.output.status = "success")
       => /\ LoadAccepts(files[ThePath])
          /\ thoughtHistory = LoadedHistory(files[ThePath])
          /\ branches = LoadedBranches(files[ThePath])

\* C4 witness: a store with a branch thought has been saved and loaded back.
C4_Witness ==
  /\ last.output.kind = "load"
  /\ last.output.status = "success"
  /\ <<"b1">> \in DOMAIN branches
  /\ Len(thoughtHistory) = 2
  /\ \E i \in 1..2 : thoughtHistory[i].nextThoughtNeeded = Bool(FALSE)

\* An element of a loaded history that is no well-formed thought.
Malformed(e) ==
  \/ IsTagged(e)
  \/ ValidationError(e) # ""

HasMalformedElement(content) ==
  /\ LoadAccepts(content)
  /\ \E i \in 1..Len(LoadedHistory(content)) : Malformed(LoadedHistory(content)[i])

IsLoadStep(l) ==
  /\ l.op = "call"
  /\ l.output.kind = "load"

\* C5 (as claimed): a load of a payload whose history holds a malformed element
\* reports failure and leaves history and branches as they were.
C5_MalformedLoadIsAllOrNothing ==
  [][(IsLoadStep(last') /\ HasMalformedElement(files[ThePath]))
     => /\ last'.output.status = "error"
        /\ UNCHANGED <<thoughtHistory, branches>>]_vars

\* The payload parses, and its thoughtHistory is absent or no array.
HistoryAbsentOrNoArray(content) ==
  /\ content.kind = "json"
  /\ \/ IsTagged(content.data)
     \/ Get(content.data, "thoughtHistory").ty # "array"

\* C6: a load of a payload whose thoughtHistory is absent or no array answers
\* with status error and leaves history and branches as they were.
C6_LoadRejectsNonArrayHistory ==
  [][(/\ last'.op = "call"
      /\ IsSessionCommand(last'.input)
      /\ IsCommand(last'.input, "load") /\ HasPath(last'.input)
      /\ HistoryAbsentOrNoArray(files[ThePath]))
     => /\ last'.output.kind = "load"
        /\ last'.output.status = "error"
        /\ UNCHANGED <<thoughtHistory, branches>>]_vars

\* C6 witness: a load of such a payload was refused with thoughts in the store.
C6_Witness ==
  /\ IsLoadStep(last)
  /\ last.output.status = "error"
  /\ HistoryAbsentOrNoArray(files[ThePath])
  /\ Len(thoughtHistory) > 0
  /\ DOMAIN branches # {}

\* C7 (as claimed): a request that carries a sessionCommand field never
\* reaches the generator and never appends a thought.
C7_CommandBypassesGeneration ==
  [][("sessionCommand" \in DOMAIN last'.input)
     => UNCHANGED <<thoughtHistory, branches, pending>>]_vars

\* C8 (as claimed): when generateContent rejects, the suspended turn appends
\* one thought whose body embeds the message, answers with the thought
\* envelope, and keeps the request's nextThoughtNeeded in both.
C8_GeneratorFailureAbsorbed ==
  [][\A i \in 1..Len(pending), message \in GeneratorErrors :
       GeneratorFails(i, message)
       => /\ thoughtHistory' = Append(thoughtHistory, Last(thoughtHistory'))
          /\ Last(thoughtHistory').thought = Str(<<"Error generating thought: ", message>>)
          /\ Last(thoughtHistory').nextThoughtNeeded = pending[i].input.nextThoughtNeeded
          /\ last'.output.kind = "thought"
          /\ ~last'.output.isError
          /\ last'.output.nextThoughtNeeded = pending[i].input.nextThoughtNeeded]_vars

\* A number that is at least 1.
Positive(v) == v.ty = "number" /\ v.val >= 100

\* The request fails the validation rules as the claim states them.
FailsStatedValidation(input) ==
  \/ ~(Get(input, "query").ty = "string" /\ Len(Get(input, "query").val) > 0)
  \/ ~Positive(Get(input, "thoughtNumber"))
  \/ ~Positive(Get(input, "totalThoughts"))
  \/ Get(input, "nextThoughtNeeded").ty # "boolean"

\* C9 (as claimed): a thought turn whose query is no non-empty string, whose
\* thoughtNumber or totalThoughts is no positive number, or whose
\* nextThoughtNeeded is no boolean is answered with the error envelope, without
\* consulting the generator and without touching history or branches.
C9_InvalidTurnRejected ==
  [][(last'.op = "call" /\ FailsStatedValidation(last'.input))
     => /\ last'.output.kind = "failed"
        /\ UNCHANGED <<thoughtHistory, branches, pending>>]_vars

\* C10 (as claimed): every thought in history has thoughtNumber >= 1 and
\* totalThoughts >= 1.
C10_StoredNumbersPositive ==
  \A i \in 1..Len(thoughtHistory) :
    /\ ~IsTagged(thoughtHistory[i])
    /\ Positive(Get(thoughtHistory[i], "thoughtNumber"))
    /\ Positive(Get(thoughtHistory[i], "totalThoughts"))

\* A body that is a string with something left after trimming.
NonEmptyBody(v) == v.ty = "string" /\ Trim(v.val) # <<>>

\* C11 (as claimed): every thought in history, and every thought returned in
\* an envelope, has a non-empty body.
C11_BodyNonEmpty ==
  /\ \A i \in 1..Len(thoughtHistory) :
       ~IsTagged(thoughtHistory[i]) /\ NonEmptyBody(Get(thoughtHistory[i], "thought"))
  /\ ThoughtReturned => NonEmptyBody(last.output.thought)

\* C12 (as claimed): while a turn is suspended awaiting the generator, no
\* other request is served against the store: a call that arrives then
\* changes neither history nor branches.
C12_OneTurnAtATime ==
  [][(pending # <<>> /\ last'.op = "call")
     => UNCHANGED <<thoughtHistory, branches>>]_vars

\* C13 (as claimed): stored thoughts stand in the order their requests
\* arrived: with every request stamped with its arrival number, the stamps in
\* history increase from front to back.
C13_ArrivalOrder ==
  \A i, j \in 1..Len(thoughtHistory) :
    i < j => ArrivalOf(thoughtHistory[i]) < ArrivalOf(thoughtHistory[j])

\* What the promise of processThought can resolve to.
EnvelopeKinds == {"failed", "thought", "save", "load", "getState", "unknown"}

\* C14: every call of processThought either suspends at the generator or
\* answers with a structured envelope, and every resumed turn answers with one;
\* an envelope of the catch block is marked isError and carries the message.
C14_NoExceptionEscapes ==
  /\ last.op = "call" => last.output.kind \in EnvelopeKinds \cup {"suspended"}
  /\ last.op = "resume" => last.output.kind \in EnvelopeKinds
  /\ last.output.kind = "failed" => last.output.isError /\ last.output.error # ""

\* C14 witness: a null request was answered with the envelope of the catch
\* block while a session file that does not parse lay on disk.
C14_Witness ==
  /\ last.op = "call"
  /\ last.input = Null
  /\ last.output.kind = "failed"
  /\ files[ThePath].kind = "garbage"

CommandNames == {<<"save">>, <<"load">>, <<"getState">>}

C16_GetStateReportsStore ==
  [][(/\ last'.op = "call"
      /\ IsSessionCommand(last'.input)
      /\ IsCommand(last'.input, "getState"))
     => /\ last'.output.kind = "getState"
        /\ last'.output.status = "success"
        /\ ~last'.output.isError
        /\ last'.output.thoughtHistoryLength = Len(thoughtHistory)
        /\ last'.output.branches = DOMAIN branches
        /\ IF thoughtHistory = <<>>
           THEN last'.output.lastThought = Null
           ELSE SameThought(last'.output.lastThought, Last(thoughtHistory))
        /\ UNCHANGED <<thoughtHistory, branches>>]_vars

\* C16 witness: getState answered on a store of two different thoughts, one
\* of them in a branch.
C16_Witness ==
  /\ last.output.kind = "getState"
  /\ Len(thoughtHistory) = 2
  /\ thoughtHistory[1] # thoughtHistory[2]
  /\ last.output.lastThought = thoughtHistory[2]
  /\ last.output.branches = {<<"b1">>}

\* C17: a load of a file that is not there or does not parse, and a load that
\* fails although the file holds a well-formed session (the read failed), is
\* answered with status error and leaves history, branches and files as they
\* were.
C17_LoadFailureLeavesStore ==
  [][(/\ IsLoadStep(last')
      /\ \/ files[ThePath].kind \in {"absent", "garbage"}
         \/ /\ last'.output.status = "error"
            /\ LoadAccepts(files[ThePath])
            /\ ~DisplayThrows(LoadedHistory(files[ThePath])))
     => /\ last'.output.status = "error"
        /\ ~last'.output.isError
        /\ UNCHANGED <<thoughtHistory, branches, files>>]_vars

\* C17 witness: a load of a file that does not parse was refused on a store
\* holding thoughts and a branch.
C17_Witness ==
  /\ IsLoadStep(last)
  /\ last.output.status = "error"
  /\ files[ThePath].kind = "garbage"
  /\ Len(thoughtHistory) > 0
  /\ DOMAIN branches # {}

\* C18 (as claimed): after a save step the destination holds what it held
\* before or the complete session of the store, and it holds what it held
\* before when the save is reported as failed.
C18_SaveAllOrNothing ==
  [][(last'.op = "call" /\ last'.output.kind = "save")
     => /\ \/ files'[ThePath] = files[ThePath]
           \/ \E ts \in Timestamps :
                files'[ThePath] = Json(SessionData(thoughtHistory, branches, ts))
        /\ last'.output.status = "error" => files'[ThePath] = files[ThePath]]_vars

\* C19 (as claimed): every thought in history with branchFromThought set
\* carries a branchId that is a non-empty string.
C19_BranchFromNeedsBranchId ==
  \A i \in 1..Len(thoughtHistory) :
    Get(thoughtHistory[i], "branchFromThought").ty # "undefined"
      => /\ Get(thoughtHistory[i], "branchId").ty = "string"
         /\ Get(thoughtHistory[i], "branchId").val # <<>>

\* The ids that thoughts in history are tagged with.
TaggedIds ==
  {Get(thoughtHistory[i], "branchId").val :
     i \in {j \in 1..Len(thoughtHistory) :
              Truthy(Get(thoughtHistory[j], "branchId"))}}

\* The thoughts of history tagged with id, in the order of history.
TaggedWith(id) ==
  LET Tagged(t) == Get(t, "branchId") = Str(id)
  IN  SelectSeq(thoughtHistory, Tagged)

\* C20 (as claimed): the branch list of every id is the subsequence of
\* history of the thoughts tagged with that id, and no id is tagged in history
\* without having a branch list.
C20_BranchIsTaggedSubsequence ==
  /\ TaggedIds \subseteq DOMAIN branches
  /\ \A id \in DOMAIN branches : branches[id] = TaggedWith(id)

\* text[j] is the number of a `CONFIDENCE: <n>%` or `CONFIDENCE:<n>%`.
IsConfidenceNumber(text, j) ==
  /\ text[j] \in DigitTokens
  /\ j < Len(text) /\ text[j + 1] = "%"
  /\ \/ j > 1 /\ text[j - 1] \in ConfidenceMarkers
     \/ j > 2 /\ text[j - 1] = " " /\ text[j - 2] \in ConfidenceMarkers

\* Position of the first such number in the text; 0 if there is none.
ConfidenceLine(text) ==
  IF \E j \in 1..Len(text) : IsConfidenceNumber(text, j)
  THEN CHOOSE j \in 1..Len(text) :
         IsConfidenceNumber(text, j) /\ \A k \in 1..(j - 1) : ~IsConfidenceNumber(text, k)
  ELSE 0

HasToken(toks, S) == \E j \in 1..Len(toks) : toks[j] \in S

\* C21 (as claimed): when the generator answers with a text holding a line
\* `CONFIDENCE: <n>%`, the stored thought has confidenceLevel n/100 and a body
\* without the CONFIDENCE marker.
C21_ConfidenceExtracted ==
  [][\A i \in 1..Len(pending), text \in GeneratedTexts \cup BlankTexts \cup MarkerTexts :
       (GeneratorReturns(i, text) /\ ConfidenceLine(text) # 0)
       => /\ Last(thoughtHistory').confidenceLevel =
               Num(ParseFloat(text[ConfidenceLine(text)]).val \div 100)
          /\ ~HasToken(Last(thoughtHistory').thought.val, ConfidenceMarkers)]_vars

\* C22 (as claimed): the body stored by a resumed turn holds no META:,
\* CONFIDENCE: or ALTERNATIVES: marker.
C22_BodyFreeOfMarkers ==
  [][(last'.op = "resume" /\ Len(thoughtHistory') = Len(thoughtHistory) + 1)
     => ~HasToken(Last(thoughtHistory').thought.val,
                  MetaMarkers \cup ConfidenceMarkers \cup AlternativesMarkers)]_vars

\* The document has a line that starts with `File: `.
HasFileLine(codebaseText) ==
  \E i \in 1..Len(Split(codebaseText, "\n")) : StartsWith(Split(codebaseText, "\n")[i], FileTag)

\* C23: semanticCodeFilter on a document without a `File: ` line returns the
\* empty text and no scores, and does not throw, whatever the query and the
\* keywords are.
C23_NoFileLineGivesEmpty ==
  (last.op = "semanticCodeFilter" /\ ~HasFileLine(last.input.codebaseText))
  => /\ last.output.kind = "returned"
     /\ last.output.relevantCode = <<>>
     /\ last.output.sortedFiles = <<>>

\* C23 witness: the filter returned on a non-empty document without a
\* `File: ` line, called with a query that is no valid pattern.
C23_Witness ==
  /\ last.op = "semanticCodeFilter"
  /\ last.input.codebaseText # <<>>
  /\ ~HasFileLine(last.input.codebaseText)
  /\ PatternThrows(last.input.query)
  /\ last.input.keywords # <<>>
  /\ last.output.kind = "returned"

\* The place of a file in the ranking, 0 when it is not ranked.
RankOf(sortedFiles, file) ==
  IF \E i \in 1..Len(sortedFiles) : sortedFiles[i].file = file
  THEN CHOOSE i \in 1..Len(sortedFiles) : sortedFiles[i].file = file
  ELSE 0

\* The two documents that hold a.ts and b.test.ts with the same body.
TwinDocuments ==
  {Section(PlainName, FooBody) \o Section(TestName, FooBody),
   Section(TestName, FooBody) \o Section(PlainName, FooBody)}

\* C24: when a.ts and b.test.ts hold the same body, `foo` three times, and the
\* query is `foo bar`, a.ts is ranked above b.test.ts in either order of the
\* two sections in the document.
C24_TestFileRankedBelow ==
  (/\ last.op = "semanticCodeFilter"
   /\ last.input.codebaseText \in TwinDocuments
   /\ last.input.query = <<"f", "o", "o", " ", "b", "a", "r">>
   /\ last.output.kind = "returned")
  => /\ RankOf(last.output.sortedFiles, PlainName) > 0
     /\ RankOf(last.output.sortedFiles, PlainName)
          < RankOf(last.output.sortedFiles, TestName)

\* The number of places where term occurs in s, letter for letter.
LiteralCount(s, term) ==
  IF term = <<>> THEN Len(s) + 1
  ELSE Cardinality({i \in 1..(Len(s) - Len(term) + 1) : SubSeq(s, i, i + Len(term) - 1) = term})

\* The score of a section when every term counts as a literal substring.
LiteralScore(file, content, queryTerms, keywords) ==
  LET lowerContent == ToLowerCase(content)
      raw == 2 * SumTo([i \in 1..Len(queryTerms) |-> LiteralCount(lowerContent, queryTerms[i])], Len(queryTerms))
             + SumTo([j \in 1..Len(keywords) |-> LiteralCount(lowerContent, ToLowerCase(keywords[j]))], Len(keywords))
      penalised == IF IsTestFile(file) THEN (raw * 100) \div 2 ELSE raw * 100
  IN  IF IsDefinitionFile(file) THEN (penalised * 3) \div 2 ELSE penalised

\* C25: the filter never fails, and the score of every ranked section is the
\* number of literal occurrences of the query terms (twice) and keywords in
\* it, weighted by the name of the section.
C25_TermsCountedLiterally ==
  last.op = "semanticCodeFilter"
  => /\ last.output.kind = "returned"
     /\ LET fileContent == Collect(Split(last.input.codebaseText, "\n"), 1, <<>>, <<>>, <<>>)
        IN  \A i \in 1..Len(last.output.sortedFiles) :
              \E k \in 1..Len(fileContent) :
                /\ fileContent[k].file = last.output.sortedFiles[i].file
                /\ last.output.sortedFiles[i].score
                     = LiteralScore(fileContent[k].file, fileContent[k].content,
                                    QueryTerms(last.input.query), last.input.keywords)

\* How often a word occurs among the words, and where it occurs first.
Occurrences(words, word) == Cardinality({i \in 1..Len(words) : words[i] = word})
FirstOccurrence(words, word) == CHOOSE i \in 1..Len(words) :
  words[i] = word /\ \A j \in 1..(i - 1) : words[j] # word

\* word v comes before word w: more frequent, or as frequent and seen first.
RanksBefore(words, v, w) ==
  \/ Occurrences(words, v) > Occurrences(words, w)
  \/ /\ Occurrences(words, v) = Occurrences(words, w)
     /\ FirstOccurrence(words, v) < FirstOccurrence(words, w)

\* C26: extractKeywords returns the distinct kept words of the text (lower
\* case, punctuation removed, no stop word, four characters or more), by
\* descending frequency with ties in the order of first occurrence, the ten
\* first of them.
C26_KeywordsByFrequencyThenOccurrence ==
  last.op = "extractKeywords"
  => LET words == KeywordWords(last.input)
         distinct == {words[i] : i \in 1..Len(words)}
         out == last.output
     IN  /\ Len(out) = IF Cardinality(distinct) < TopKeywords
                       THEN Cardinality(distinct) ELSE TopKeywords
         /\ \A i \in 1..Len(out) : out[i] \in distinct
         /\ \A i, j \in 1..Len(out) : i < j => RanksBefore(words, out[i], out[j])
         /\ \A w \in distinct \ {out[i] : i \in 1..Len(out)} :
              \A i \in 1..Len(out) : RanksBefore(words, out[i], w)

\* C27: a step of a thought turn leaves every thought of the history where
\* and as it was; a revision turn that returns has added one thought, which
\* names the revised index, and a returned turn with a smaller totalThoughts
\* than an earlier thought leaves that total as it was.
C27_HistoryAppendOnly ==
  [][/\ Len(thoughtHistory') >= Len(thoughtHistory)
     /\ \A i \in 1..Len(thoughtHistory) :
          /\ SameThought(thoughtHistory'[i], thoughtHistory[i])
          /\ thoughtHistory'[i].totalThoughts = thoughtHistory[i].totalThoughts
     /\ (last'.output.kind = "thought" /\ Truthy(Get(last'.input, "isRevision")))
          => /\ Len(thoughtHistory') = Len(thoughtHistory) + 1
             /\ Last(thoughtHistory').isRevision = Bool(TRUE)
             /\ Last(thoughtHistory').revisesThought = last'.input.revisesThought]_vars

\* C27 witness: a revision of thought 1 with totalThoughts 2 has been stored
\* behind thought 1, which still plans five thoughts and is no revision.
C27_Witness ==
  /\ ThoughtReturned
  /\ Len(thoughtHistory) = 2
  /\ last.input = Revision(Planned(2, 2), 1)
  /\ thoughtHistory[2].revisesThought = Whole(1)
  /\ thoughtHistory[2].totalThoughts = Whole(2)
  /\ thoughtHistory[1].totalThoughts = Whole(5)
  /\ ~Truthy(thoughtHistory[1].isRevision)

\* C28: a load that reports success leaves the history the file holds and the
\* branches the file holds, none when the file has no branches field, so that
\* every thought and branch id of the store is one of the file, and the
\* envelope reports them.
C28_LoadReplacesState ==
  [][(IsLoadStep(last') /\ last'.output.status = "success")
     => /\ files[ThePath].kind = "json"
        /\ thoughtHistory' = files[ThePath].data.thoughtHistory.val
        /\ IF "branches" \in DOMAIN files[ThePath].data
           THEN branches' = files[ThePath].data.branches.val
           ELSE branches' = EmptyObject
        /\ last'.output.thoughtHistoryLength = Len(files[ThePath].data.thoughtHistory.val)
        /\ last'.output.branches = DOMAIN branches']_vars

\* C28 witness: a file without a branches field has been loaded, and the store
\* holds its one thought and no branch.
C28_Witness ==
  /\ IsLoadStep(last)
  /\ last.output.status = "success"
  /\ files[ThePath].kind = "json"
  /\ "branches" \notin DOMAIN files[ThePath].data
  /\ thoughtHistory = <<ValidStored>>
  /\ branches = EmptyObject

IsSaveStep(l) ==
  /\ l.op = "call"
  /\ l.output.kind = "save"

\* C29: a save leaves history and branches as they were, so getState answers
\* after it as before it; it is answered with the save envelope, and with
\* status error unless the file now holds the session.
C29_SaveLeavesStore ==
  [][IsSaveStep(last')
     => /\ UNCHANGED <<thoughtHistory, branches>>
        /\ StateResponse(thoughtHistory', branches') = StateResponse(thoughtHistory, branches)
        /\ last'.output.isError = FALSE
        /\ last'.output.status \in {"success", "error"}
        /\ last'.output.status = "success"
             => \E ts \in Timestamps :
                  files'[ThePath] = Json(SessionData(thoughtHistory, branches, ts))]_vars

\* C29 witness: a save on a store with two thoughts and branch b1 could not
\* write the file and was answered with status error.
C29_Witness ==
  /\ IsSaveStep(last)
  /\ last.output.status = "error"
  /\ files[ThePath] = Absent
  /\ Len(thoughtHistory) = 2
  /\ <<"b1">> \in DOMAIN branches

\* The request carries no body, or one that is empty or blank.
BlankBody(input) ==
  \/ Get(input, "thought") = Undefined
  \/ Get(input, "thought").ty = "string" /\ Trim(Get(input, "thought").val) = <<>>

\* C30 (as claimed): a turn that passes validation takes the generator step
\* (it suspends at generateContent, or fails building the prompt) when its
\* body is absent, empty or blank, and when its body is a string that is not
\* blank it does not, and stores and returns a thought with exactly that body.
C30_GeneratorOnlyForBlankBody ==
  [][(last'.op = "call" /\ last'.input # Null /\ ValidationError(last'.input) = "")
     => /\ BlankBody(last'.input)
             => \/ last'.output.kind = "suspended"
                \/ PromptThrows(validateThoughtData(last'.input))
        /\ NonEmptyBody(Get(last'.input, "thought"))
             => /\ pending' = pending
                /\ Len(thoughtHistory') = Len(thoughtHistory) + 1
                /\ Last(thoughtHistory').thought = last'.input.thought
                /\ last'.output.kind = "thought"
                /\ last'.output.thought = last'.input.thought]_vars

\* The turn names the thought it branches from and a branch id.
Branched(input) ==
  /\ Truthy(Get(input, "branchFromThought"))
  /\ Get(input, "branchId").ty = "string"
  /\ Get(input, "branchId").val # <<>>

\* C31: the envelope of a stored thought reports the length of the history
\* with that thought in it and the branch ids of the store, the id of the turn
\* among them when the turn branched, and carries the body, thoughtNumber,
\* totalThoughts and nextThoughtNeeded of the last thought of the history.
C31_EnvelopeReflectsStore ==
  ThoughtReturned
  => /\ Len(thoughtHistory) > 0
     /\ last.output.thoughtHistoryLength = Len(thoughtHistory)
     /\ last.output.branches = DOMAIN branches
     /\ Branched(last.input) => last.input.branchId.val \in last.output.branches
     /\ last.output.thought = Last(thoughtHistory).thought
     /\ last.output.thoughtNumber = Last(thoughtHistory).thoughtNumber
     /\ last.output.totalThoughts = Last(thoughtHistory).totalThoughts
     /\ last.output.nextThoughtNeeded = Last(thoughtHistory).nextThoughtNeeded

\* C31 witness: a generated turn on a new branch has returned as the second
\* thought, and its envelope lists both branches.
C31_Witness ==
  /\ ThoughtReturned
  /\ last.op = "resume"
  /\ Branched(last.input)
  /\ last.output.thoughtHistoryLength = 2
  /\ Cardinality(last.output.branches) = 2

\* C32 (as claimed): the confidenceLevel of every thought in history is absent
\* or a number from 0 to 1, whether the caller supplied it or it was taken
\* from a CONFIDENCE marker of the generated text.
C32_ConfidenceInUnitInterval ==
  \A i \in 1..Len(thoughtHistory) :
    \/ Get(thoughtHistory[i], "confidenceLevel") = Undefined
    \/ /\ Get(thoughtHistory[i], "confidenceLevel").ty = "number"
       /\ Get(thoughtHistory[i], "confidenceLevel").val >= 0
       /\ Get(thoughtHistory[i], "confidenceLevel").val <= 100

\* The sections of the latest call as the first pass collected them.
CollectedSections == Collect(Split(last.input.codebaseText, "\n"), 1, <<>>, <<>>, <<>>)

\* The content the first pass holds for a file.
ContentOf(file) ==
  (CHOOSE e \in {CollectedSections[i] : i \in 1..Len(CollectedSections)} : e.file = file).content

\* Raw score times the weights the name calls for, in hundredths.
Weighted(raw, file) ==
  CASE IsTestFile(file) /\ IsDefinitionFile(file) -> raw * 75
    [] IsTestFile(file) /\ ~IsDefinitionFile(file) -> raw * 50
    [] ~IsTestFile(file) /\ IsDefinitionFile(file) -> raw * 150
    [] OTHER -> raw * 100

\* C33: the score of every ranked section is its raw frequency score times 0.5
\* when its name contains test or spec, times 1.5 when it contains interface,
\* type or model, times both when it contains both, and the raw score otherwise.
C33_WeightsMultiply ==
  (last.op = "semanticCodeFilter" /\ last.output.kind = "returned")
  => \A i \in 1..Len(last.output.sortedFiles) :
       last.output.sortedFiles[i].score
         = Weighted(RawScore(ContentOf(last.output.sortedFiles[i].file),
                             QueryTerms(last.input.query), last.input.keywords),
                    last.output.sortedFiles[i].file)

\* C33 witness: four sections with the same body have been scored, the plain
\* one at 4, the test one at 2, the definition one at 6 and test.model.ts at 3.
C33_Witness ==
  /\ last.op = "semanticCodeFilter"
  /\ last.output.kind = "returned"
  /\ {<<e.file, e.score>> : e \in {last.output.sortedFiles[i] : i \in 1..Len(last.output.sortedFiles)}}
       = {<<PlainName, 400>>, <<TestName, 200>>, <<TypeName, 600>>, <<TestModelName, 300>>}

\* The score the latest call gave to a file.
ScoreOf(file) == last.output.sortedFiles[RankOf(last.output.sortedFiles, file)].score

\* C34 (as claimed): when Foo.Test.ts and foo.test.ts hold the same body, the
\* filter gives them the same score.
C34_NameMatchedIgnoringCase ==
  (/\ last.op = "semanticCodeFilter"
   /\ last.output.kind = "returned"
   /\ last.input.codebaseText
        = Section(CapitalTestName, Fooos(2)) \o Section(LowerTestName, Fooos(2)))
  => /\ RankOf(last.output.sortedFiles, CapitalTestName) > 0
     /\ RankOf(last.output.sortedFiles, LowerTestName) > 0
     /\ ScoreOf(CapitalTestName) = ScoreOf(LowerTestName)

\* The sections of a document as the partition is stated: every line that
\* starts with `File: ` opens one, and a line that does not belongs to the
\* section opened last, if there is one.
RECURSIVE StatedSections(_, _, _)
StatedSections(lines, k, sections) ==
  IF k > Len(lines) THEN sections
  ELSE IF StartsWith(lines[k], FileTag)
  THEN StatedSections(lines, k + 1,
         Append(sections, [file |-> Trim(SubSeq(lines[k], Len(FileTag) + 1, Len(lines[k]))),
                            content |-> lines[k] \o <<"\n">>]))
  ELSE IF sections = <<>>
  THEN StatedSections(lines, k + 1, sections)
  ELSE StatedSections(lines, k + 1,
         [sections EXCEPT ![Len(sections)].content = @ \o lines[k] \o <<"\n">>])

SectionsOfInput == StatedSections(Split(last.input.codebaseText, "\n"), 1, <<>>)

\* C36 (as claimed): of a document with at most ten `File: ` lines, every
\* section is ranked, each as a candidate of its own, with the score of its
\* own content.
C36_EverySectionACandidate ==
  (/\ last.op = "semanticCodeFilter"
   /\ last.output.kind = "returned"
   /\ Len(SectionsOfInput) <= TopFiles)
  => /\ Len(last.output.sortedFiles) = Len(SectionsOfInput)
     /\ \A k \in 1..Len(SectionsOfInput) :
          \E i \in 1..Len(last.output.sortedFiles) :
            /\ last.output.sortedFiles[i].file = SectionsOfInput[k].file
            /\ last.output.sortedFiles[i].score
                 = Score(SectionsOfInput[k].file, SectionsOfInput[k].content,
                         QueryTerms(last.input.query), last.input.keywords)

\* The score of every section, each from its own content.
StatedScores(sections, query, keywords) ==
  [k \in 1..Len(sections) |->
     Score(sections[k].file, sections[k].content, QueryTerms(query), keywords)]

\* The place of every section in descending score order, ties in document
\* order.
StatedRanks(scores) ==
  [k \in DOMAIN scores |->
     1 + Cardinality({j \in DOMAIN scores :
                        \/ scores[j] > scores[k]
                        \/ scores[j] = scores[k] /\ j < k})]

\* The text of the sections at places i..n, a blank line after each.
RECURSIVE StatedText(_, _, _, _)
StatedText(sections, at, i, n) ==
  IF i > n THEN <<>>
  ELSE sections[at[i]].content \o <<"\n">> \o StatedText(sections, at, i + 1, n)

\* C35 (as claimed): the filter ranks the ten sections that come first in
\* descending score order, ties in document order (all of them when there
\* are fewer), and returns their full text in that order, a blank line after
\* each; no section left out scores above one that is in.
C35_TopTenInScoreOrder ==
  (last.op = "semanticCodeFilter" /\ last.output.kind = "returned")
  => LET sections == SectionsOfInput
         scores == StatedScores(sections, last.input.query, last.input.keywords)
         ranks == StatedRanks(scores)
         n == IF Len(sections) < TopFiles THEN Len(sections) ELSE TopFiles
         at == [i \in 1..n |-> CHOOSE k \in DOMAIN ranks : ranks[k] = i]
     IN  /\ Len(last.output.sortedFiles) = n
         /\ \A i \in 1..n :
              /\ last.output.sortedFiles[i].file = sections[at[i]].file
              /\ last.output.sortedFiles[i].score = scores[at[i]]
         /\ last.output.relevantCode = StatedText(sections, at, 1, n)

\* C37 (as claimed): a step of a thought turn that answers with the error
\* envelope leaves history and branches as they were.
C37_FailedTurnLeavesStore ==
  [][(last'.op \in {"call", "resume"} /\ last'.output.kind = "failed")
     => UNCHANGED <<thoughtHistory, branches>>]_vars

\* C38 (as claimed): a request whose sessionCommand is save, load or getState
\* is not answered with the unknown-command error, with or without a path.
C38_KnownCommandNotUnknown ==
  [][(/\ last'.op = "call"
      /\ IsSessionCommand(last'.input)
      /\ Get(last'.input, "sessionCommand").val \in CommandNames)
     => last'.output.kind # "unknown"]_vars

\* A call that passes validation suspends, or appends one thought and
\* answers; a resumed turn appends one thought and answers.
OneAppendOneAnswer ==
  /\ (last'.op = "call" /\ last'.input # Null /\ ValidationError(last'.input) = "")
       => \/ /\ last'.output.kind = "suspended"
             /\ Len(pending') = Len(pending) + 1
             /\ thoughtHistory' = thoughtHistory
          \/ /\ last'.output.kind \in {"thought", "failed"}
             /\ pending' = pending
             /\ Len(thoughtHistory') = Len(thoughtHistory) + 1
  /\ (last'.op = "resume")
       => /\ last'.output.kind \in {"thought", "failed"}
          /\ Len(pending') = Len(pending) - 1
          /\ Len(thoughtHistory') = Len(thoughtHistory) + 1

\* C39 (as claimed): a call that passes validation appends its thought in
\* the same step or suspends, a suspended turn is resumed once, appending one
\* thought and answering with one envelope, and when the generator settles
\* every call no turn stays suspended.
C39_EveryTurnCompletes ==
  /\ [][OneAppendOneAnswer]_vars
  /\ (pending # <<>>) ~> (pending = <<>>)

\* The client is at the head of the loop and the loop is over.
Stopped == last.op = "loop" /\ ~LoopCondition(last)

\* A step of the client that sends a turn request: the request belongs to
\* the main sequence and carries the next index, which is 1 at first and
\* afterwards one more than the index the previous response echoed; the
\* k-th request carries the index k, which is at most the total; and the
\* previous response was no error envelope, asked for a continuation, and the
\* user did not decline.
RequestInOrder ==
  (last.op = "loop" /\ last'.op = "call")
    => LET args == last'.input IN
       /\ ~Truthy(Get(args, "branchFromThought")) /\ ~Truthy(Get(args, "branchId"))
       /\ ~Truthy(Get(args, "isRevision")) /\ "thought" \notin DOMAIN args
       /\ args.thoughtNumber = Whole(Len(thoughtHistory) + 1)
       /\ LessOrEqual(Whole(1), args.thoughtNumber)
       /\ LessOrEqual(args.thoughtNumber, last.totalThoughts)
       /\ args.totalThoughts = last.totalThoughts
       /\ last.input = Null => args.thoughtNumber = Whole(1)
       /\ last.input # Null =>
            /\ last.output.kind = "thought"
            /\ args.thoughtNumber = Plus(last.output.thoughtNumber, Whole(1))
            /\ last.output.thoughtNumber = last.input.thoughtNumber
            /\ last.output.nextThoughtNeeded = Bool(TRUE)
            /\ last.continueResponse.ty = "string"
            /\ last.continueResponse.val \in {<<"y">>, <<"Y">>}

\* C40: the driver loop of the client terminates: with the total T the user
\* chose it sends main-sequence turn requests with the indices 1, 2, 3, ...,
\* each one more than the index echoed in the previous response, at most T
\* of them, and it sends none after an error envelope, after a response
\* whose nextThoughtNeeded is false, or after the user declined to continue.
C40_DriverLoopTerminates ==
  /\ [][RequestInOrder]_vars
  /\ <>Stopped

\* The loop is over after the two requests of a total of two.
C40_Witness ==
  /\ Stopped
  /\ last.totalThoughts = Whole(2)
  /\ Len(thoughtHistory) = 2
  /\ last.output.kind = "thought"
  /\ last.output.thoughtNumber = Whole(2)

====
